---- MODULE Spec2Model ----
(***************************************************************************)
(* Consumer-lifecycle core of awfl-us/server.                              *)
(*                                                                         *)
(* Part 1: the Project Consumer Lock and the producer launcher             *)
(* (jobs/producer/index.js: POST /start and POST /stop, jobs/producer/     *)
(* docker.js: container helpers).  The lock module                         *)
(* (workflows/projects/lock.js) and the exit monitor                       *)
(* (jobs/producer/monitor.js) are described from section 4.1 / 4.2 of the  *)
(* specification.                                                          *)
(*                                                                         *)
(* One (userId, projectId) pair is modelled: every document and container  *)
(* below belongs to it.  Each await of a handler is one step.              *)
(*                                                                         *)
(* Part 2: postCallback (cloud/producer/app/callbacks.js).                 *)
(* Part 3: syncBucketPrefix (cloud/sse-consumer/app/gcs-sync.js), with the *)
(* object store and the other writers of the bucket as its environment.    *)
(* Part 4: the event stream client and the Tool Dispatcher, described from *)
(* sections 4.3 / 4.4 of the specification.                                *)
(* Part 5: the sync triggers of the consumer, described from section 4.5.  *)
(* Part 6: gracefulShutdown of the runner (shutdown.js).                   *)
(* Part 7: POST /workflows/exec/status/update (jobs/workflows.exec.js).    *)
(* Part 8: the Exec Registry: POST /workflows/exec/links/register and      *)
(* POST /workflows/exec/tree.                                              *)
(* Part 9: the workspace registry: POST /register and POST /:id/heartbeat  *)
(* (workflows/utils.js).                                                   *)
(* Part 10: POST /workflows/exec/status (jobs/workflows.exec.js).          *)
(*                                                                         *)
(* The parts share no state: each has its own next-state relation and      *)
(* specification, and leaves the variables of the others unchanged.        *)
(***************************************************************************)
EXTENDS Integers, FiniteSets, Sequences, TLC

\* ------------------------------------------------------------------ bounds
NumStart == 2      \* /producer/start requests
NumStop == 1       \* concurrently running /producer/stop handlers
MaxTicks == 2      \* clock ticks of MinLeaseMs each
MaxLeaseK == 1     \* largest requested lease, in multiples of MinLeaseMs
NumObjects == 1    \* object names under the synced prefix
MaxRuns == 2       \* sync runs
MaxRemoteWrites == 2  \* writes to the bucket by other parties
MaxLocalEdits == 1    \* edits of local files by tools
NumEvents == 2     \* events of one stream
MaxReconnects == 1 \* reconnects of one pull stream
NumWorkRoots == 2  \* work roots served by one consumer
MaxPeriodic == 1   \* periodic sync triggers per work root
NumHooks == 1      \* registered shutdown hooks
MaxSignals == 2    \* shutdown triggers of one process
NumStatusExecs == 1  \* exec ids that get status updates
NumStatusReqs == 2   \* /status/update requests
MaxStTicks == 2      \* seconds that pass during the status updates
NumExecs == 4      \* exec ids
NumSessions == 1   \* session ids
NumLinkReqs == 1   \* concurrently running /links/register handlers
MaxLinkCalls == 3  \* /links/register requests
MaxRgTicks == 1    \* seconds that pass in the Exec Registry
NumWorkspaces == 1 \* workspace ids that doc() issues
NumWsReqs == 2     \* concurrently running workspace handlers
MaxWsCalls == 3    \* workspace requests
MaxWsTicks == 2    \* milliseconds that pass in the workspace registry
NumLsExecs == 6    \* ExecRegs read by /status
NumLsSessions == 2 \* session ids of those ExecRegs
MaxLsTicks == 1    \* seconds that pass while they are created
MaxLsStatusDocs == 1   \* ExecStatus documents written
MaxFetchFailures == 1  \* status fetches of one request that fail

\* ------------------------------------------------------- program constants
MinLeaseMs == 5000
MaxLeaseMs == 600000
maxAttemptsStop == 3
maxAttemptsRelease == 3

StartReqs == 1..NumStart
StopReqs == 1..NumStop

Max(a, b) == IF a >= b THEN a ELSE b
Min(a, b) == IF a <= b THEN a ELSE b

\* ------------------------------------------------------------------- state
VARIABLES
  now,           \* Date.now() of the metadata store / server
  lockDoc,       \* the Consumer Lock document of (userId, projectId)
  pc,            \* position of each /start handler
  body,          \* request body and environment seen by each /start handler
  consumerId,    \* let consumerId (0 = null)
  lockAcquired,  \* let lockAcquired
  lock,          \* const lock = await acquireConsumerLock(...)
  resp,          \* response sent by each /start handler
  producer,      \* producer container / remote job started by each /start
  sidecar,       \* sidecar container started by each /start
  monitor,       \* exit monitor installed by each /start
  spc,           \* position of each /stop handler
  slock,         \* the lock read by each /stop handler
  sresp,         \* response sent by each /stop handler
  lastOp         \* log of the most recent Lock Manager call

\* postCallback (cloud/producer/app/callbacks.js)
VARIABLES
  cbPc,          \* position of postCallback
  attempt,       \* let attempt
  useWrapper,    \* let useWrapper
  cbPosts,       \* the POST requests sent by this call, with their outcome
  cbErr,         \* the error caught or thrown by postCallback
  cbCalls        \* calls of postCallback made so far

cbVars == <<cbPc, attempt, useWrapper, cbPosts, cbErr, cbCalls>>

\* syncBucketPrefix (cloud/sse-consumer/app/gcs-sync.js), one bucket + prefix
\* mirrored into one work root
VARIABLES
  remote,        \* the objects under the prefix in the object store
  genCounter,    \* the last generation the object store has issued
  localFs,       \* the files under workRoot
  stampCounter,  \* the last (mtimeMs, size) stamp the filesystem has issued
  manifestFile,  \* <workRoot>/.gcs-manifest.json
  enableUpload,  \* GCS_ENABLE_UPLOAD, once config.js is loaded
  canCreate,     \* the token of this run carries storage.objects.create
  syncPc,        \* position of the sync run
  manifest,      \* const manifest (in memory)
  remoteIndex,   \* const remoteIndex: the listing
  toDownload,    \* const toDownload, the part not yet handled
  locals,        \* const locals, the part not yet handled
  stats,         \* let downloaded, uploaded, conflicts
  xfer,          \* generation each object really had when this run moved it
  startCase,     \* what the run found for each name when it was called
  did,           \* what the run did with each name in one of the two situations
                 \* (both are kept only while nothing disturbs the run)
  lastUpload,    \* the most recent upload request and what the store did
  runQuiet,      \* nothing outside the run changed since this run began
  quietPrev,     \* the previous completed run, while nothing changed since
  lastRun,       \* what the last completed run returned
  syncRuns,      \* sync runs started so far
  remoteWrites,  \* writes to the bucket by other parties so far
  localEdits     \* edits of local files by tools so far

syncStoreVars == <<remote, genCounter, localFs, stampCounter, manifestFile>>
syncConfVars == <<enableUpload, canCreate>>
syncRunVars == <<syncPc, manifest, remoteIndex, toDownload, locals, stats>>
syncLogVars == <<xfer, startCase, did, lastUpload, runQuiet, quietPrev, lastRun,
                 syncRuns, remoteWrites, localEdits>>
syncVars == <<syncStoreVars, syncConfVars, syncRunVars, syncLogVars>>

\* the event stream and the Tool Dispatcher of one session (specification
\* 4.3, 4.4)
VARIABLES
  streamMode,    \* "closed", or the mode the stream was opened in
  upNext,        \* the event the upstream delivers next
  lastEventId,   \* the cursor of the client
  dsPc,          \* position of the dispatcher
  cur,           \* the event being handled (0 = none)
  evCall,        \* the tool_call of each event
  dispatched,    \* handler invocations per event id
  emitted,       \* results emitted per event id
  records,       \* the result record of each event
  fsEffects,     \* the files read or written by tool invocations
  reconnects,    \* reconnects so far
  dupsDropped    \* deliveries dropped as duplicates

dispVars == <<streamMode, upNext, lastEventId, dsPc, cur, evCall, dispatched,
              emitted, records, fsEffects, reconnects, dupsDropped>>

\* the sync triggers of the consumer, one stream per work root (specification
\* 4.5, lifecycle hooks)
VARIABLES
  stream,        \* per work root: "closed", "open" or "stopped"
  syncing,       \* per work root: the flag that a run is in progress
  runPcs,        \* per work root: the positions of the runs in progress
  periodic,      \* per work root: periodic triggers fired so far
  coalesced,     \* per work root: triggers that started no run
  lastTrigger    \* the last trigger and what became of it

schedVars == <<stream, syncing, runPcs, periodic, coalesced, lastTrigger>>

\* the shutdown of the runner process (shutdown.js)
VARIABLES
  SHUTDOWN_TIMEOUT_MS,  \* the configured value (0 = config not loaded yet)
  shuttingDown,  \* the module's flag
  sdPc,          \* "boot", "up", then the step gracefulShutdown awaits, "exited"
  firstCode,     \* the code argument of the call that runs the sequence
  exitCode,      \* the code process.exit was called with
  hookState,     \* per hook: "idle", "running", "done", "threw"
  stopState,     \* postUnifiedStop: "idle", "running", "ok", "failed", "threw"
  stopAttempts,  \* POSTs to /producer/stop so far
  relState,      \* releaseProjectLock: "idle", "running", "ok", "failed"
  relAttempts,   \* POSTs to consumer-lock/release so far
  took,          \* per step: the time gracefulShutdown awaited it (-1 = not run)
  sdLog,         \* the steps started and how each await ended, in order
  signals        \* the codes of the shutdown triggers so far, in order

sdVars == <<SHUTDOWN_TIMEOUT_MS, shuttingDown, sdPc, firstCode, exitCode, hookState,
            stopState, stopAttempts, relState, relAttempts, took, sdLog, signals>>

\* the ExecStatus documents and the /status/update handlers (workflows.exec.js)
VARIABLES
  stNow,         \* Math.floor(Date.now() / 1000)
  statusDocs,    \* per execId: the ExecStatus document
  mirrored,      \* per execId: the status mirrored onto the ExecReg ("" = none)
  suPc,          \* per request: "idle", "get", "set", "mirror", "done", "rejected"
  suBody,        \* per request: the body
  suLocal,       \* per request: nowSec, existing.exists, created
  firstCreated   \* per execId: created as the first write stored it (0 = none)

stVars == <<stNow, statusDocs, mirrored, suPc, suBody, suLocal, firstCreated>>

\* the ExecReg and ExecLink documents, the /links/register handlers and the
\* /tree handler (workflows.exec.js, exec tree router)
VARIABLES
  rgNow,         \* Math.floor(Date.now() / 1000)
  execRegs,      \* per execId: the ExecReg document
  execLinks,     \* per document id callingExecId:triggeredExecId: the ExecLink
  lrPc,          \* per request: "idle", "create", "set"
  lrPayload,     \* per request: the payload
  lrCalls,       \* /links/register requests so far
  firstLink,     \* per document id: the document as the first registration wrote it
  trPc,          \* the /tree handler: "idle", "links", "done"
  trLatestOnly,  \* latestOnlyFlag
  trSession,     \* sessionId of the request
  regsSnap,      \* the ExecRegs the handler read
  linksSnap,     \* the ExecLinks the handler read
  trees          \* the trees it answered

rgVars == <<rgNow, execRegs, execLinks, lrPc, lrPayload, lrCalls, firstLink, trPc,
            trLatestOnly, trSession, regsSnap, linksSnap, trees>>
rgDocVars == <<rgNow, execRegs, execLinks>>
rgLinkVars == <<lrPc, lrPayload, lrCalls, firstLink>>
rgTreeVars == <<trPc, trLatestOnly, trSession, regsSnap, linksSnap, trees>>

\* the Workspace documents and the /register and /:id/heartbeat handlers
\* (workflows/utils.js)
VARIABLES
  wsNow,         \* Date.now()
  workspaces,    \* per workspace id: the Workspace document
  wsPc,          \* per request: "idle", "project", "create", "get", "set"
  wsLocal,       \* per request: the workspace id and const now
  wsIds,         \* ids issued by doc() so far
  wsCalls        \* workspace requests so far

wsVars == <<wsNow, workspaces, wsPc, wsLocal, wsIds, wsCalls>>

\* the ExecReg and ExecStatus documents read by POST /status, and its handler
VARIABLES
  lsNow,         \* Math.floor(Date.now() / 1000)
  lsRegs,        \* per execId: the ExecReg document
  lsStatuses,    \* per execId: the ExecStatus document
  lsPc,          \* "idle", "regs", "fetch", "done", "notFound"
  lsSession,     \* const { sessionId } = req.body
  limitRaw,      \* const limitRaw
  limit,         \* let limit
  lsItems,       \* const items
  lsResults      \* const results

lsVars == <<lsNow, lsRegs, lsStatuses, lsPc, lsSession, limitRaw, limit, lsItems,
            lsResults>>

\* the state of the runner-side components, which the launcher never touches
runnerVars == <<cbVars, syncVars, dispVars, schedVars, sdVars, stVars, rgVars, wsVars,
                lsVars>>

launcherVars == <<now, lockDoc, pc, body, consumerId, lockAcquired, lock, resp,
                  producer, sidecar, monitor, spc, slock, sresp, lastOp>>

vars == <<launcherVars, runnerVars>>

\* what each runner-side component leaves alone
otherThanCb ==
  <<launcherVars, syncVars, dispVars, schedVars, sdVars, stVars, rgVars, wsVars,
    lsVars>>
otherThanSync ==
  <<launcherVars, cbVars, dispVars, schedVars, sdVars, stVars, rgVars, wsVars,
    lsVars>>
otherThanDisp ==
  <<launcherVars, cbVars, syncVars, schedVars, sdVars, stVars, rgVars, wsVars,
    lsVars>>
otherThanSched ==
  <<launcherVars, cbVars, syncVars, dispVars, sdVars, stVars, rgVars, wsVars,
    lsVars>>
otherThanSt ==
  <<launcherVars, cbVars, syncVars, dispVars, schedVars, sdVars, rgVars, wsVars,
    lsVars>>
otherThanRg ==
  <<launcherVars, cbVars, syncVars, dispVars, schedVars, sdVars, stVars, wsVars,
    lsVars>>
otherThanWs ==
  <<launcherVars, cbVars, syncVars, dispVars, schedVars, sdVars, stVars, rgVars,
    lsVars>>
otherThanLs ==
  <<launcherVars, cbVars, syncVars, dispVars, schedVars, sdVars, stVars, rgVars, wsVars>>
otherThanSd ==
  <<launcherVars, cbVars, syncVars, dispVars, schedVars, stVars, rgVars, wsVars,
    lsVars>>

startVars == <<pc, body, consumerId, lockAcquired, lock, resp>>
stopVars == <<spc, slock, sresp>>
containerVars == <<producer, sidecar, monitor>>

\* ---------------------------------------------------------------- records
NoRuntime ==
  [mode |-> "none", producer |-> 0, sidecar |-> 0, stopRequested |-> FALSE, stopAt |-> 0]

NoLock ==
  [exists |-> FALSE, consumerId |-> 0, consumerType |-> "NONE", leaseMs |-> 0,
   acquiredAt |-> 0, runtime |-> NoRuntime]

NoResult ==
  [called |-> FALSE, ok |-> FALSE, conflict |-> FALSE, currentConsumerId |-> 0]

NoBody == [localDocker |-> FALSE, sidecarEnabled |-> FALSE]

NoResp == [kind |-> "none", holder |-> 0]

NoOp == [op |-> "none", by |-> 0, force |-> FALSE, holder |-> 0]

\* ------------------------------------------------------------ Lock Manager
\* variant: the lease runs one instant longer
Expired_Strict(doc, t) == t - doc.acquiredAt > doc.leaseMs

\* expired: now - acquiredAt >= leaseMs
Expired(doc, t) == t - doc.acquiredAt >= doc.leaseMs

acquireConsumerLock(doc, cid, leaseMs, consumerType, t) ==
  IF ~doc.exists \/ Expired(doc, t)
  THEN [ok |-> TRUE, conflict |-> FALSE, currentConsumerId |-> 0,
        doc |-> [exists |-> TRUE, consumerId |-> cid, consumerType |-> consumerType,
                 leaseMs |-> leaseMs, acquiredAt |-> t, runtime |-> NoRuntime]]
  ELSE [ok |-> FALSE, conflict |-> TRUE, currentConsumerId |-> doc.consumerId,
        doc |-> doc]

setConsumerRuntimeInfo(doc, cid, runtime) ==
  IF doc.exists /\ doc.consumerId = cid
  THEN [doc EXCEPT !.runtime = runtime]
  ELSE doc

getConsumerLock(doc) == [ok |-> TRUE, lock |-> doc]

releaseConsumerLock(doc, cid, force) ==
  IF doc.exists /\ (force \/ doc.consumerId = cid)
  THEN NoLock
  ELSE doc

renewConsumerLock(doc, cid, t) ==
  IF doc.exists /\ doc.consumerId = cid
  THEN [doc EXCEPT !.acquiredAt = t]
  ELSE doc

LogOp(op, by, force, before) ==
  [op |-> op, by |-> by, force |-> force,
   holder |-> IF before.exists THEN before.consumerId ELSE 0]

\* -------------------------------------------------------------------- Init
NoErr == [thrown |-> FALSE, status |-> 0, noRetry |-> FALSE]

\* no call of postCallback has been made
CallbackInit ==
  /\ cbPc = "idle"
  /\ attempt = 0
  /\ useWrapper = FALSE
  /\ cbPosts = <<>>
  /\ cbErr = NoErr
  /\ cbCalls = 0

Names == 1..NumObjects

NoObject == [exists |-> FALSE, gen |-> 0, content |-> 0]
NoFile == [exists |-> FALSE, content |-> 0, stamp |-> 0]
NoEntry == [exists |-> FALSE, remoteGen |-> 0, stamp |-> 0]
NoListed == [exists |-> FALSE, gen |-> 0]
NoStats == [downloaded |-> 0, uploaded |-> 0, conflicts |-> 0, rejected |-> 0]
NoUpload ==
  [sent |-> FALSE, name |-> 0, ifMatch |-> 0, listed |-> FALSE, manifestGen |-> 0,
   existed |-> FALSE, genBefore |-> 0, accepted |-> FALSE]
NoPrev == [valid |-> FALSE, accepted |-> FALSE, busy |-> FALSE]
NoRun ==
  [completed |-> FALSE, secondQuiet |-> FALSE, firstAccepted |-> FALSE,
   firstBusy |-> FALSE, downloaded |-> 0, uploaded |-> 0, conflicts |-> 0]

NoDeed == [downloaded |-> FALSE, uploaded |-> FALSE, conflict |-> FALSE]

\* an empty bucket prefix, an empty work root, no manifest, no run
SyncInit ==
  /\ remote = [n \in Names |-> NoObject]
  /\ genCounter = 0
  /\ localFs = [n \in Names |-> NoFile]
  /\ stampCounter = 0
  /\ manifestFile = [n \in Names |-> NoEntry]
  /\ enableUpload = "unset"
  /\ canCreate = FALSE
  /\ syncPc = "boot"
  /\ manifest = [n \in Names |-> NoEntry]
  /\ remoteIndex = [n \in Names |-> NoListed]
  /\ toDownload = <<>>
  /\ locals = <<>>
  /\ stats = NoStats
  /\ xfer = [n \in Names |-> 0]
  /\ startCase = [n \in Names |-> "none"]
  /\ did = [n \in Names |-> NoDeed]
  /\ lastUpload = NoUpload
  /\ runQuiet = FALSE
  /\ quietPrev = NoPrev
  /\ lastRun = NoRun
  /\ syncRuns = 0
  /\ remoteWrites = 0
  /\ localEdits = 0

Events == 1..NumEvents

NoPath == [abs |-> FALSE, comps |-> <<>>]
NoCall == [present |-> FALSE, tool |-> "none", path |-> NoPath, throws |-> FALSE]
NoRecord ==
  [present |-> FALSE, result |-> "null", error |-> "", via |-> "none",
   delivered |-> FALSE]

\* no stream is open
DispatchInit ==
  /\ streamMode = "closed"
  /\ upNext = 1
  /\ lastEventId = 0
  /\ dsPc = "idle"
  /\ cur = 0
  /\ evCall = [e \in Events |-> NoCall]
  /\ dispatched = [e \in Events |-> 0]
  /\ emitted = [e \in Events |-> 0]
  /\ records = [e \in Events |-> NoRecord]
  /\ fsEffects = {}
  /\ reconnects = 0
  /\ dupsDropped = 0

WorkRoots == 1..NumWorkRoots

NoTrigger == [present |-> FALSE, workRoot |-> 0, kind |-> "none", busy |-> FALSE,
              started |-> FALSE]

\* no stream is open, no run in progress
SchedInit ==
  /\ stream = [w \in WorkRoots |-> "closed"]
  /\ syncing = [w \in WorkRoots |-> FALSE]
  /\ runPcs = [w \in WorkRoots |-> <<>>]
  /\ periodic = [w \in WorkRoots |-> 0]
  /\ coalesced = [w \in WorkRoots |-> 0]
  /\ lastTrigger = NoTrigger

Hooks == 1..NumHooks
Steps == {"hooks", "stop", "release"}

\* the process has started, its config is not loaded yet
ShutdownInit ==
  /\ SHUTDOWN_TIMEOUT_MS = 0
  /\ shuttingDown = FALSE
  /\ sdPc = "boot"
  /\ firstCode = 0 - 1
  /\ exitCode = 0 - 1
  /\ hookState = [h \in Hooks |-> "idle"]
  /\ stopState = "idle"
  /\ stopAttempts = 0
  /\ relState = "idle"
  /\ relAttempts = 0
  /\ took = [st \in Steps |-> 0 - 1]
  /\ sdLog = <<>>
  /\ signals = <<>>

StatusExecs == 1..NumStatusExecs
StatusReqs == 1..NumStatusReqs

NoStatusDoc == [exists |-> FALSE, created |-> 0, updated |-> 0, status |-> ""]
NoStatusBody == [execId |-> 0, status |-> ""]
NoStatusLocal == [nowSec |-> 0, exists |-> FALSE, created |-> 0]

\* no ExecStatus document, no request
StatusInit ==
  /\ stNow = 1
  /\ statusDocs = [e \in StatusExecs |-> NoStatusDoc]
  /\ mirrored = [e \in StatusExecs |-> ""]
  /\ suPc = [r \in StatusReqs |-> "idle"]
  /\ suBody = [r \in StatusReqs |-> NoStatusBody]
  /\ suLocal = [r \in StatusReqs |-> NoStatusLocal]
  /\ firstCreated = [e \in StatusExecs |-> 0]

ExecIds == 1..NumExecs
Sessions == 1..NumSessions
LinkReqs == 1..NumLinkReqs

\* the document ids the requests of the model use, in document-id order
LinkKeys == <<<<1, 2>>, <<1, 3>>, <<2, 1>>, <<3, 4>>>>
LinkIds == {LinkKeys[i] : i \in 1..Len(LinkKeys)}

NoReg == [exists |-> FALSE, sessionId |-> 0, created |-> 0]
NoLink == [exists |-> FALSE, callingExec |-> 0, triggeredExec |-> 0, sessionId |-> 0,
           created |-> 0]

\* empty collections, no request
RegistryInit ==
  /\ rgNow = 1
  /\ execRegs = [e \in ExecIds |-> NoReg]
  /\ execLinks = [k \in LinkIds |-> NoLink]
  /\ lrPc = [r \in LinkReqs |-> "idle"]
  /\ lrPayload = [r \in LinkReqs |-> NoLink]
  /\ lrCalls = 0
  /\ firstLink = [k \in LinkIds |-> NoLink]
  /\ trPc = "idle"
  /\ trLatestOnly = FALSE
  /\ trSession = 0
  /\ regsSnap = [e \in ExecIds |-> NoReg]
  /\ linksSnap = [k \in LinkIds |-> NoLink]
  /\ trees = <<>>

WorkspaceIds == 1..NumWorkspaces
WsReqs == 1..NumWsReqs

NoWorkspace == [exists |-> FALSE, live_at |-> 0, created |-> 0, updated |-> 0]
NoWsLocal == [id |-> 0, now |-> 0]

\* no workspace, no request
WorkspaceInit ==
  /\ wsNow = 1
  /\ workspaces = [w \in WorkspaceIds |-> NoWorkspace]
  /\ wsPc = [r \in WsReqs |-> "idle"]
  /\ wsLocal = [r \in WsReqs |-> NoWsLocal]
  /\ wsIds = 0
  /\ wsCalls = 0

LsExecIds == 1..NumLsExecs
LsSessions == 1..NumLsSessions

NoLimit == [given |-> FALSE, n |-> 0]

\* empty collections, no request
LatestInit ==
  /\ lsNow = 1
  /\ lsRegs = [e \in LsExecIds |-> NoReg]
  /\ lsStatuses = [e \in LsExecIds |-> NoStatusDoc]
  /\ lsPc = "idle"
  /\ lsSession = 0
  /\ limitRaw = NoLimit
  /\ limit = 0
  /\ lsItems = <<>>
  /\ lsResults = <<>>

Init ==
  /\ LatestInit
  /\ WorkspaceInit
  /\ CallbackInit
  /\ SyncInit
  /\ DispatchInit
  /\ SchedInit
  /\ ShutdownInit
  /\ StatusInit
  /\ RegistryInit
  /\ now = 0
  /\ lockDoc = NoLock
  /\ pc = [r \in StartReqs |-> "idle"]
  /\ body = [r \in StartReqs |-> NoBody]
  /\ consumerId = [r \in StartReqs |-> 0]
  /\ lockAcquired = [r \in StartReqs |-> FALSE]
  /\ lock = [r \in StartReqs |-> NoResult]
  /\ resp = [r \in StartReqs |-> NoResp]
  /\ producer = [r \in StartReqs |-> "none"]
  /\ sidecar = [r \in StartReqs |-> "none"]
  /\ monitor = [r \in StartReqs |-> "none"]
  /\ spc = [s \in StopReqs |-> "idle"]
  /\ slock = [s \in StopReqs |-> NoLock]
  /\ sresp = [s \in StopReqs |-> NoResp]
  /\ lastOp = NoOp

\* ------------------------------------------------------------------- clock
Tick ==
  /\ now < MaxTicks * MinLeaseMs
  /\ now' = now + MinLeaseMs
  /\ UNCHANGED runnerVars
  /\ UNCHANGED <<lockDoc, startVars, containerVars, stopVars, lastOp>>

\* ------------------------------------------------------- container runtime
\* docker stop -t 5 <name>: best-effort, a container that is not running stays as it is
stopContainer(st) == IF st = "running" THEN "exited" ELSE st

\* docker wait <name> returns once the container is no longer running
waitContainer(st) == st # "running"

\* the producer process (container or remote job execution) terminates by itself
ProducerExit(r) ==
  /\ producer[r] = "running"
  /\ producer' = [producer EXCEPT ![r] = "exited"]
  /\ UNCHANGED runnerVars
  /\ UNCHANGED <<now, lockDoc, startVars, sidecar, monitor, stopVars, lastOp>>

\* the running producer's heartbeat renews the lease it owns
Renew(r) ==
  /\ producer[r] = "running"
  /\ lockDoc.exists /\ lockDoc.consumerId = consumerId[r] /\ lockDoc.acquiredAt < now
  /\ lockDoc' = renewConsumerLock(lockDoc, consumerId[r], now)
  /\ lastOp' = LogOp("renew", consumerId[r], FALSE, lockDoc)
  /\ UNCHANGED runnerVars
  /\ UNCHANGED <<now, startVars, containerVars, stopVars>>

\* ---------------------------------------------------- POST /producer/start
\* body.leaseMs: absent / not a number, or a number of milliseconds
LeaseInputs ==
  {[finite |-> FALSE, n |-> 0]} \cup {[finite |-> TRUE, n |-> k * MinLeaseMs] : k \in 0..MaxLeaseK}

\* body.localDocker || PRODUCER_LOCAL_DOCKER, PRODUCER_SIDECAR_ENABLE === '1'
\* (in the Cloud Run branch the sidecar flag only changes the environment of the job)
Bodies ==
  {b \in [localDocker : BOOLEAN, sidecarEnabled : BOOLEAN] :
     b.sidecarEnabled => b.localDocker}

\* variant: the lower clamp of the lease is missing
leaseMsOf_NoFloor(b) ==
  IF b.finite THEN Min(MaxLeaseMs, b.n) ELSE MaxLeaseMs

\* Number.isFinite(Number(body.leaseMs)) ? Math.max(5000, Math.min(600000, n)) : 600000
leaseMsOf(b) ==
  IF b.finite THEN Max(MinLeaseMs, Min(MaxLeaseMs, b.n)) ELSE MaxLeaseMs

\* randomId('producer'): a fresh id per request
randomId(r) == r

\* variant: the consumerType follows the mode
StartConsumerType_ByMode(localDocker) == IF localDocker THEN "LOCAL" ELSE "CLOUD"

\* the consumerType passed to acquireConsumerLock
StartConsumerType(localDocker) == "CLOUD"

\* variant: the conflict branch never returns
StartConflict_Never(res) == FALSE

\* if (!lock.ok && lock.conflict) return 202 'Lock held by another consumer'
StartConflict(res) == ~res.ok /\ res.conflict

\* sidecarName is set only when the local sidecar branch ran
sidecarName(r) == IF body[r].localDocker /\ body[r].sidecarEnabled THEN r ELSE 0

\* variant: the monitor is handed the sidecar's name
producerKey_Sidecar(r) == [kind |-> "sidecar", id |-> sidecarName(r)]

\* startExitMonitor({ producerKey: containerName || id, ... })
producerKey(r) == [kind |-> "producer", id |-> r]

ContainerState(key) ==
  IF key.kind = "producer" THEN producer[key.id]
  ELSE IF key.id = 0 THEN "none" ELSE sidecar[key.id]

LocalRuntime(r) ==
  [mode |-> "local-docker", producer |-> r, sidecar |-> sidecarName(r),
   stopRequested |-> FALSE, stopAt |-> 0]

CloudRuntime(r) ==
  [mode |-> "cloud-run", producer |-> 0, sidecar |-> 0,
   stopRequested |-> FALSE, stopAt |-> 0]

\* the consumerId handed to setConsumerRuntimeInfo by /start
StartRuntimeCaller_Holder(r) == lockDoc.consumerId

StartRuntimeCaller(r) == consumerId[r]

\* variant: lockAcquired is never seen as set
bestEffortRelease_Skips(r) == lockDoc

\* variant: the release of the error paths is forced
bestEffortRelease_Force(r) ==
  IF lockAcquired[r] /\ consumerId[r] # 0
  THEN releaseConsumerLock(lockDoc, consumerId[r], TRUE)
  ELSE lockDoc

\* bestEffortRelease: owner-scoped release, only once lockAcquired is set
bestEffortRelease(r) ==
  IF lockAcquired[r] /\ consumerId[r] # 0
  THEN releaseConsumerLock(lockDoc, consumerId[r], FALSE)
  ELSE lockDoc

\* the outer catch: owner-scoped release whenever consumerId is set
catchRelease(r) ==
  IF consumerId[r] # 0
  THEN releaseConsumerLock(lockDoc, consumerId[r], FALSE)
  ELSE lockDoc

StartAcquire(r) ==
  /\ pc[r] = "idle"
  /\ \E b \in Bodies, l \in LeaseInputs :
       LET cid == randomId(r)
           res == acquireConsumerLock(lockDoc, cid, leaseMsOf(l),
                                      StartConsumerType(b.localDocker), now)
       IN /\ body' = [body EXCEPT ![r] = b]
          /\ consumerId' = [consumerId EXCEPT ![r] = cid]
          /\ lockDoc' = res.doc
          /\ lastOp' = LogOp("acquire", cid, FALSE, lockDoc)
          /\ lock' = [lock EXCEPT ![r] =
                        [called |-> TRUE, ok |-> res.ok, conflict |-> res.conflict,
                         currentConsumerId |-> res.currentConsumerId]]
          /\ IF StartConflict(res)
             THEN /\ resp' = [resp EXCEPT ![r] =
                               [kind |-> "LockHeld", holder |-> res.currentConsumerId]]
                  /\ pc' = [pc EXCEPT ![r] = "done"]
                  /\ UNCHANGED lockAcquired
             ELSE /\ lockAcquired' = [lockAcquired EXCEPT ![r] = TRUE]
                  /\ pc' = [pc EXCEPT ![r] = "launch"]
                  /\ UNCHANGED resp
  /\ UNCHANGED runnerVars
  /\ UNCHANGED <<now, containerVars, stopVars>>

\* acquire gave up after its retries: the error reaches the outer catch
StartAcquireThrows(r) ==
  /\ pc[r] = "idle"
  /\ \E b \in Bodies : body' = [body EXCEPT ![r] = b]
  /\ consumerId' = [consumerId EXCEPT ![r] = randomId(r)]
  /\ pc' = [pc EXCEPT ![r] = "catch"]
  /\ UNCHANGED runnerVars
  /\ UNCHANGED <<now, lockDoc, lockAcquired, lock, resp, containerVars, stopVars, lastOp>>

\* runLocalDocker for the sidecar consumer
StartSidecar(r) ==
  /\ pc[r] = "launch"
  /\ body[r].localDocker /\ body[r].sidecarEnabled
  /\ \/ /\ sidecar' = [sidecar EXCEPT ![r] = "running"]
        /\ pc' = [pc EXCEPT ![r] = "launchProducer"]
     \/ /\ pc' = [pc EXCEPT ![r] = "bestEffortRelease"]
        /\ UNCHANGED sidecar
  /\ UNCHANGED runnerVars
  /\ UNCHANGED <<now, lockDoc, body, consumerId, lockAcquired, lock, resp,
                 producer, monitor, stopVars, lastOp>>

\* runLocalDocker for the producer
StartProducer(r) ==
  /\ body[r].localDocker
  /\ \/ pc[r] = "launchProducer"
     \/ pc[r] = "launch" /\ ~body[r].sidecarEnabled
  /\ \/ /\ producer' = [producer EXCEPT ![r] = "running"]
        /\ pc' = [pc EXCEPT ![r] = "setRuntime"]
     \/ /\ pc' = [pc EXCEPT ![r] =
                    IF sidecarName(r) # 0 THEN "stopSidecar" ELSE "bestEffortRelease"]
        /\ UNCHANGED producer
  /\ UNCHANGED runnerVars
  /\ UNCHANGED <<now, lockDoc, body, consumerId, lockAcquired, lock, resp,
                 sidecar, monitor, stopVars, lastOp>>

\* catch of the local branch: if (sidecarName) await stopContainer(sidecarName)
StartStopSidecar(r) ==
  /\ pc[r] = "stopSidecar"
  /\ sidecar' = [sidecar EXCEPT ![r] = stopContainer(sidecar[r])]
  /\ pc' = [pc EXCEPT ![r] = "bestEffortRelease"]
  /\ UNCHANGED runnerVars
  /\ UNCHANGED <<now, lockDoc, body, consumerId, lockAcquired, lock, resp,
                 producer, monitor, stopVars, lastOp>>

\* try { await setConsumerRuntimeInfo(...) } catch (e) { console.warn(...) }:
\* the document after the call, which may throw
persistRuntime(r, runtime, threw) ==
  IF threw THEN lockDoc
  ELSE setConsumerRuntimeInfo(lockDoc, StartRuntimeCaller(r), runtime)

\* variant: the monitor is installed only after a successful write
monitorInstalled_IfPersisted(threw) == ~threw

\* startExitMonitor follows the try/catch around the runtime write
monitorInstalled(threw) == TRUE

\* setConsumerRuntimeInfo, startExitMonitor, 202 { ok: true, mode: 'local-docker' }
StartSetRuntime(r) ==
  /\ pc[r] = "setRuntime"
  /\ \E threw \in BOOLEAN :
       /\ lockDoc' = persistRuntime(r, LocalRuntime(r), threw)
       /\ lastOp' = LogOp("setRuntime", StartRuntimeCaller(r), FALSE, lockDoc)
       /\ monitor' = IF monitorInstalled(threw)
                       THEN [monitor EXCEPT ![r] = "waiting"]
                       ELSE monitor
  /\ resp' = [resp EXCEPT ![r] = [kind |-> "started", holder |-> 0]]
  /\ pc' = [pc EXCEPT ![r] = "done"]
  /\ UNCHANGED runnerVars
  /\ UNCHANGED <<now, body, consumerId, lockAcquired, lock, producer, sidecar, stopVars>>

\* the Cloud Run Job branch: configuration check, access token, jobs:run
StartJob(r) ==
  /\ pc[r] = "launch"
  /\ ~body[r].localDocker
  /\ \/ /\ producer' = [producer EXCEPT ![r] = "running"]
        /\ pc' = [pc EXCEPT ![r] = "setRuntimeCloud"]
     \/ /\ pc' = [pc EXCEPT ![r] = "bestEffortRelease"]
        /\ UNCHANGED producer
     \/ /\ pc' = [pc EXCEPT ![r] = "catch"]
        /\ UNCHANGED producer
  /\ UNCHANGED runnerVars
  /\ UNCHANGED <<now, lockDoc, body, consumerId, lockAcquired, lock, resp,
                 sidecar, monitor, stopVars, lastOp>>

\* setConsumerRuntimeInfo, 202 { ok: true, mode: 'cloud-run' }
StartSetRuntimeCloud(r) ==
  /\ pc[r] = "setRuntimeCloud"
  /\ lockDoc' = persistRuntime(r, CloudRuntime(r), FALSE)
  /\ lastOp' = LogOp("setRuntime", StartRuntimeCaller(r), FALSE, lockDoc)
  /\ resp' = [resp EXCEPT ![r] = [kind |-> "started", holder |-> 0]]
  /\ pc' = [pc EXCEPT ![r] = "done"]
  /\ UNCHANGED runnerVars
  /\ UNCHANGED <<now, body, consumerId, lockAcquired, lock, containerVars, stopVars>>

\* await bestEffortRelease(...); return res.status(500)
StartBestEffortRelease(r) ==
  /\ pc[r] = "bestEffortRelease"
  /\ lockDoc' = bestEffortRelease(r)
  /\ lastOp' = IF lockAcquired[r] /\ consumerId[r] # 0
                THEN LogOp("release", consumerId[r], FALSE, lockDoc)
                ELSE lastOp
  /\ resp' = [resp EXCEPT ![r] = [kind |-> "error", holder |-> 0]]
  /\ pc' = [pc EXCEPT ![r] = "done"]
  /\ UNCHANGED runnerVars
  /\ UNCHANGED <<now, body, consumerId, lockAcquired, lock, containerVars, stopVars>>

\* catch (err): best-effort release on unexpected error, 500
StartCatch(r) ==
  /\ pc[r] = "catch"
  /\ lockDoc' = catchRelease(r)
  /\ lastOp' = IF consumerId[r] # 0
                THEN LogOp("release", consumerId[r], FALSE, lockDoc)
                ELSE lastOp
  /\ resp' = [resp EXCEPT ![r] = [kind |-> "error", holder |-> 0]]
  /\ pc' = [pc EXCEPT ![r] = "done"]
  /\ UNCHANGED runnerVars
  /\ UNCHANGED <<now, body, consumerId, lockAcquired, lock, containerVars, stopVars>>

\* ------------------------------------------------------------ exit monitor
\* waits for the producer to terminate
MonitorWait(r) ==
  /\ monitor[r] = "waiting"
  /\ waitContainer(ContainerState(producerKey(r)))
  /\ monitor' = [monitor EXCEPT ![r] = "stopSidecar"]
  /\ UNCHANGED runnerVars
  /\ UNCHANGED <<now, lockDoc, startVars, producer, sidecar, stopVars, lastOp>>

\* then stops the sidecar (best-effort)
MonitorStopSidecar(r) ==
  /\ monitor[r] = "stopSidecar"
  /\ sidecar' = [sidecar EXCEPT ![r] =
                   IF sidecarName(r) # 0 THEN stopContainer(sidecar[r]) ELSE sidecar[r]]
  /\ monitor' = [monitor EXCEPT ![r] = "release"]
  /\ UNCHANGED runnerVars
  /\ UNCHANGED <<now, lockDoc, startVars, producer, stopVars, lastOp>>

\* and calls Lock.release (owner-scoped)
MonitorRelease(r) ==
  /\ monitor[r] = "release"
  /\ lockDoc' = releaseConsumerLock(lockDoc, consumerId[r], FALSE)
  /\ lastOp' = LogOp("release", consumerId[r], FALSE, lockDoc)
  /\ monitor' = [monitor EXCEPT ![r] = "done"]
  /\ UNCHANGED runnerVars
  /\ UNCHANGED <<now, startVars, producer, sidecar, stopVars>>

\* ----------------------------------------------------- POST /producer/stop
\* variant: the release of /stop is not forced
StopReleaseForce_Off == FALSE

\* releaseConsumerLock({ userId, projectId, force: true })
StopReleaseForce == TRUE

\* getConsumerLock, then the branch on lock and runtime.mode
StopRead(s) ==
  /\ spc[s] = "idle"
  /\ LET got == getConsumerLock(lockDoc)
         runtime == got.lock.runtime
     IN /\ IF ~got.lock.exists
           THEN /\ sresp' = [sresp EXCEPT ![s] = [kind |-> "NoActiveLock", holder |-> 0]]
                /\ spc' = [spc EXCEPT ![s] = "done"]
                /\ slock' = [slock EXCEPT ![s] = NoLock]
           ELSE /\ slock' = [slock EXCEPT ![s] = got.lock]
                /\ sresp' = [sresp EXCEPT ![s] = NoResp]
                /\ spc' = [spc EXCEPT ![s] =
                             IF runtime.mode = "local-docker"
                             THEN (IF runtime.producer # 0 THEN "stopProducer"
                                   ELSE IF runtime.sidecar # 0 THEN "stopSidecar"
                                   ELSE "release")
                             ELSE IF runtime.mode = "cloud-run" THEN "setRuntime"
                             ELSE "release"]
  /\ UNCHANGED runnerVars
  /\ UNCHANGED <<now, lockDoc, startVars, containerVars, lastOp>>

\* if (prodName) await stopContainer(prodName)
StopProducer(s) ==
  /\ spc[s] = "stopProducer"
  /\ LET p == slock[s].runtime.producer
     IN producer' = [producer EXCEPT ![p] = stopContainer(producer[p])]
  /\ spc' = [spc EXCEPT ![s] =
               IF slock[s].runtime.sidecar # 0 THEN "stopSidecar" ELSE "release"]
  /\ UNCHANGED runnerVars
  /\ UNCHANGED <<now, lockDoc, startVars, sidecar, monitor, slock, sresp, lastOp>>

\* if (sideName) await stopContainer(sideName)
StopSidecar(s) ==
  /\ spc[s] = "stopSidecar"
  /\ LET c == slock[s].runtime.sidecar
     IN sidecar' = [sidecar EXCEPT ![c] = stopContainer(sidecar[c])]
  /\ spc' = [spc EXCEPT ![s] = "release"]
  /\ UNCHANGED runnerVars
  /\ UNCHANGED <<now, lockDoc, startVars, producer, monitor, slock, sresp, lastOp>>

\* cloud-run: setConsumerRuntimeInfo({ consumerId: lock.consumerId,
\*   runtime: { ...runtime, stopRequested: true, stopAt: Date.now() } })
StopSetRuntime(s) ==
  /\ spc[s] = "setRuntime"
  /\ lockDoc' = setConsumerRuntimeInfo(lockDoc, slock[s].consumerId,
                   [slock[s].runtime EXCEPT !.stopRequested = TRUE, !.stopAt = now])
  /\ lastOp' = LogOp("setRuntime", slock[s].consumerId, FALSE, lockDoc)
  /\ spc' = [spc EXCEPT ![s] = "release"]
  /\ UNCHANGED runnerVars
  /\ UNCHANGED <<now, startVars, containerVars, slock, sresp>>

\* releaseConsumerLock({ force: true }); 200 { ok: true, mode, released }
StopRelease(s) ==
  /\ spc[s] = "release"
  /\ lockDoc' = releaseConsumerLock(lockDoc, 0, StopReleaseForce)
  /\ lastOp' = LogOp("release", 0, StopReleaseForce, lockDoc)
  /\ sresp' = [sresp EXCEPT ![s] = [kind |-> "ok", holder |-> 0]]
  /\ spc' = [spc EXCEPT ![s] = "done"]
  /\ UNCHANGED runnerVars
  /\ UNCHANGED <<now, startVars, containerVars, slock>>

\* the next /producer/stop request
StopNext(s) ==
  /\ spc[s] = "done"
  /\ spc' = [spc EXCEPT ![s] = "idle"]
  /\ slock' = [slock EXCEPT ![s] = NoLock]
  /\ sresp' = [sresp EXCEPT ![s] = NoResp]
  /\ UNCHANGED runnerVars
  /\ UNCHANGED <<now, lockDoc, startVars, containerVars, lastOp>>

\* ------------------------------------------------------------ specification
Next ==
  \/ Tick
  \/ \E r \in StartReqs : ProducerExit(r)
  \/ \E r \in StartReqs : Renew(r)
  \/ \E r \in StartReqs : StartAcquire(r)
  \/ \E r \in StartReqs : StartAcquireThrows(r)
  \/ \E r \in StartReqs : StartSidecar(r)
  \/ \E r \in StartReqs : StartProducer(r)
  \/ \E r \in StartReqs : StartStopSidecar(r)
  \/ \E r \in StartReqs : StartSetRuntime(r)
  \/ \E r \in StartReqs : StartJob(r)
  \/ \E r \in StartReqs : StartSetRuntimeCloud(r)
  \/ \E r \in StartReqs : StartBestEffortRelease(r)
  \/ \E r \in StartReqs : StartCatch(r)
  \/ \E r \in StartReqs : MonitorWait(r)
  \/ \E r \in StartReqs : MonitorStopSidecar(r)
  \/ \E r \in StartReqs : MonitorRelease(r)
  \/ \E s \in StopReqs : StopRead(s)
  \/ \E s \in StopReqs : StopProducer(s)
  \/ \E s \in StopReqs : StopSidecar(s)
  \/ \E s \in StopReqs : StopSetRuntime(s)
  \/ \E s \in StopReqs : StopRelease(s)
  \/ \E s \in StopReqs : StopNext(s)

Spec == Init /\ [][Next]_vars

\* acquireConsumerLock resolves with a result that is neither ok nor a
\* conflict (the Lock Manager could not decide): the handler tests
\* if (!lock.ok && lock.conflict), then sets lockAcquired
StartAcquireFails(r) ==
  /\ pc[r] = "idle"
  /\ \E b \in Bodies : body' = [body EXCEPT ![r] = b]
  /\ LET res == [ok |-> FALSE, conflict |-> FALSE, currentConsumerId |-> 0]
     IN /\ consumerId' = [consumerId EXCEPT ![r] = randomId(r)]
        /\ lock' = [lock EXCEPT ![r] =
                      [called |-> TRUE, ok |-> res.ok, conflict |-> res.conflict,
                       currentConsumerId |-> res.currentConsumerId]]
        /\ IF StartConflict(res)
           THEN /\ resp' = [resp EXCEPT ![r] =
                             [kind |-> "LockHeld", holder |-> res.currentConsumerId]]
                /\ pc' = [pc EXCEPT ![r] = "done"]
                /\ UNCHANGED lockAcquired
           ELSE /\ lockAcquired' = [lockAcquired EXCEPT ![r] = TRUE]
                /\ pc' = [pc EXCEPT ![r] = "launch"]
                /\ UNCHANGED resp
  /\ UNCHANGED runnerVars
  /\ UNCHANGED <<now, lockDoc, containerVars, stopVars, lastOp>>

\* the launcher with a Lock Manager whose acquire may also fail without a
\* conflict
FailingAcquireNext ==
  \/ Next
  \/ \E r \in StartReqs : StartAcquireFails(r)

FailingAcquireSpec == Init /\ [][FailingAcquireNext]_vars

\* the exit monitor is a background task of the server: it keeps running
FairSpec ==
  /\ Spec
  /\ \A r \in StartReqs :
       /\ WF_vars(MonitorWait(r))
       /\ WF_vars(MonitorStopSidecar(r))
       /\ WF_vars(MonitorRelease(r))

\* ============================================================ postCallback
\* cloud/producer/app/callbacks.js: the producer posts one tool result to
\* /callbacks/{callbackId}.  Each await (the POST, the backoff timer) is a step.

MaxCalls == 2      \* calls of postCallback

maxAttempts_Four == 3 + 1

maxAttempts == 3

\* no response at all: timeout, connection reset
NetErr == 0

\* what one axios.post can come back with
CbStatuses == {200, 400, 401, 404, 409, 429, 500}
CbOutcomes == CbStatuses \cup {NetErr}

\* payloads are told apart by how many {result: ...} wrappers surround them
payload == 0
Wrap(p) == p + 1

\* const body = useWrapper ? { result: payload } : payload
cbBody(wrapper) == IF wrapper THEN Wrap(payload) ELSE payload

HttpError(status, noRetry) == [thrown |-> TRUE, status |-> status, noRetry |-> noRetry]

\* the try block for one outcome of the POST: validateStatus lets every status
\* below 500 through as a response; axios rejects on 5xx and on transport errors
tryOutcome(status, wrapper) ==
  IF status = NetErr \/ status >= 500
    THEN [kind |-> "caught", err |-> HttpError(status, FALSE)]
  ELSE IF status >= 200 /\ status < 300
    THEN [kind |-> "return", err |-> NoErr]
  ELSE IF status = 400 /\ ~wrapper
    THEN [kind |-> "wrap", err |-> NoErr]
  ELSE IF status = 404
    THEN [kind |-> "caught", err |-> HttpError(404, TRUE)]
  ELSE [kind |-> "caught", err |-> HttpError(status, FALSE)]

catchOutcome_Retry404(err, wrapper) ==
  IF err.status = 400 /\ ~wrapper THEN "wrap" ELSE "backoff"

\* the catch block, up to its first await
catchOutcome(err, wrapper) ==
  IF err.status = 400 /\ ~wrapper THEN "wrap"
  ELSE IF err.status = 404 THEN "throw"
  ELSE "backoff"

\* while (attempt < maxAttempts); falling out of the loop returns undefined
whileNext(a) == IF a < maxAttempts THEN "loop" ELSE "returned"

\* postCallback(callbackId, payload) is called and reaches the loop
CbCall ==
  /\ cbPc \in {"idle", "returned", "thrown"}
  /\ cbCalls < MaxCalls
  /\ cbCalls' = cbCalls + 1
  /\ attempt' = 0
  /\ useWrapper' = FALSE
  /\ cbPosts' = <<>>
  /\ cbErr' = NoErr
  /\ cbPc' = whileNext(0)
  /\ UNCHANGED otherThanCb

\* one pass of the loop body up to its next await, return or throw
CbPost(status) ==
  /\ cbPc = "loop"
  /\ attempt < maxAttempts
  /\ attempt' = attempt + 1
  /\ cbPosts' = Append(cbPosts, [depth |-> cbBody(useWrapper), status |-> status,
                                 backoff |-> FALSE])
  /\ LET t == tryOutcome(status, useWrapper)
         c == IF t.kind = "caught" THEN catchOutcome(t.err, useWrapper) ELSE t.kind
     IN CASE c = "return" -> /\ cbPc' = "returned"
                             /\ UNCHANGED <<useWrapper, cbErr>>
          [] c = "wrap" -> /\ useWrapper' = TRUE
                           /\ cbPc' = whileNext(attempt')
                           /\ UNCHANGED cbErr
          [] c = "throw" -> /\ cbPc' = "thrown"
                            /\ cbErr' = [t.err EXCEPT !.noRetry = TRUE]
                            /\ UNCHANGED useWrapper
          [] c = "backoff" -> /\ cbPc' = "backoff"
                              /\ cbErr' = t.err
                              /\ UNCHANGED useWrapper
  /\ UNCHANGED cbCalls
  /\ UNCHANGED otherThanCb

\* the backoff timer fires: if (attempt >= maxAttempts) throw err
CbBackoff ==
  /\ cbPc = "backoff"
  /\ cbPosts' = [cbPosts EXCEPT ![Len(cbPosts)].backoff = TRUE]
  /\ cbPc' = IF attempt >= maxAttempts THEN "thrown" ELSE "loop"
  /\ UNCHANGED <<attempt, useWrapper, cbErr, cbCalls>>
  /\ UNCHANGED otherThanCb

CallbackNext ==
  \/ CbCall
  \/ \E status \in CbOutcomes : CbPost(status)
  \/ CbBackoff

CallbackSpec == Init /\ [][CallbackNext]_vars

\* ======================================================== syncBucketPrefix
\* cloud/sse-consumer/app/gcs-sync.js: one run mirrors the bucket prefix into
\* the work root and back.  Each request to the object store is a step; the
\* paginated listing is taken as one snapshot.  Generations are numbers, 0
\* standing for the empty string; a (mtimeMs, size) pair is one stamp.

\* config.js is loaded
SyncBoot(enabled) ==
  /\ syncPc = "boot"
  /\ enableUpload' = (IF enabled THEN "on" ELSE "off")
  /\ syncPc' = "idle"
  /\ UNCHANGED <<syncStoreVars, canCreate, manifest, remoteIndex, toDownload, locals,
                 stats, syncLogVars>>
  /\ UNCHANGED otherThanSync

\* another writer creates or rewrites an object: the store issues a generation
RemoteWrite(n) ==
  /\ remoteWrites < MaxRemoteWrites
  /\ remoteWrites' = remoteWrites + 1
  /\ genCounter' = genCounter + 1
  /\ remote' = [remote EXCEPT ![n] =
       [exists |-> TRUE, gen |-> genCounter', content |-> genCounter']]
  /\ runQuiet' = FALSE
  /\ quietPrev' = NoPrev
  /\ startCase' = [k \in Names |-> "none"]
  /\ did' = [k \in Names |-> NoDeed]
  /\ UNCHANGED <<localFs, stampCounter, manifestFile, syncConfVars, syncRunVars,
                 xfer, lastUpload, lastRun, syncRuns, localEdits>>
  /\ UNCHANGED otherThanSync

\* another writer deletes an object
RemoteDelete(n) ==
  /\ remoteWrites < MaxRemoteWrites
  /\ remote[n].exists
  /\ remoteWrites' = remoteWrites + 1
  /\ remote' = [remote EXCEPT ![n] = NoObject]
  /\ runQuiet' = FALSE
  /\ quietPrev' = NoPrev
  /\ startCase' = [k \in Names |-> "none"]
  /\ did' = [k \in Names |-> NoDeed]
  /\ UNCHANGED <<genCounter, localFs, stampCounter, manifestFile, syncConfVars,
                 syncRunVars, xfer, lastUpload, lastRun, syncRuns, localEdits>>
  /\ UNCHANGED otherThanSync

\* a tool creates or rewrites a file under workRoot
LocalEdit(n) ==
  /\ localEdits < MaxLocalEdits
  /\ localEdits' = localEdits + 1
  /\ stampCounter' = stampCounter + 1
  /\ localFs' = [localFs EXCEPT ![n] =
       [exists |-> TRUE, content |-> 0 - stampCounter', stamp |-> stampCounter']]
  /\ runQuiet' = FALSE
  /\ quietPrev' = NoPrev
  /\ startCase' = [k \in Names |-> "none"]
  /\ did' = [k \in Names |-> NoDeed]
  /\ UNCHANGED <<remote, genCounter, manifestFile, syncConfVars, syncRunVars,
                 xfer, lastUpload, lastRun, syncRuns, remoteWrites>>
  /\ UNCHANGED otherThanSync

\* const wantGen = String(it?.generation || '')
wantGen(it) == it.gen

upToDate_Never(current, want) == FALSE

\* if (current?.remoteGen && current.remoteGen === wantGen) continue
upToDate(current, want) ==
  current.exists /\ current.remoteGen # 0 /\ current.remoteGen = want

\* the object names in the order the store lists them and readdir walks them
AllNames == [i \in 1..NumObjects |-> i]

\* the loop that fills toDownload
toDownloadOf(index, mf) ==
  LET Wanted(n) == index[n].exists /\ ~upToDate(mf[n], wantGen(index[n]))
  IN SelectSeq(AllNames, Wanted)

\* walkLocalFiles(workRoot): the files with their stat
walkLocalFiles(fs) ==
  LET IsFile(n) == fs[n].exists
      found == SelectSeq(AllNames, IsFile)
  IN [i \in 1..Len(found) |-> [name |-> found[i], stamp |-> fs[found[i]].stamp]]

\* the situation of one name when a run is called: the manifest entry names
\* another generation than the object has and the file was rewritten since
\* ("stale_modified"), or the file has no manifest entry while the object
\* exists ("untracked")
caseOf(obj, entry, file) ==
  IF obj.exists /\ file.exists /\ entry.exists /\ entry.remoteGen # 0
       /\ entry.remoteGen # obj.gen /\ entry.stamp # file.stamp
    THEN "stale_modified"
  ELSE IF obj.exists /\ file.exists /\ ~entry.exists THEN "untracked"
  ELSE "other"

\* did, with the deed of the run on name n added when n is in one of the
\* two situations
noted(n, deed) ==
  IF startCase[n] \in {"stale_modified", "untracked"}
    THEN [did EXCEPT ![n][deed] = TRUE]
    ELSE did

\* syncBucketPrefix is called: auth header, readManifest
SyncStart(tokenCanCreate) ==
  /\ syncPc = "idle"
  /\ syncRuns < MaxRuns
  /\ syncRuns' = syncRuns + 1
  /\ canCreate' = tokenCanCreate
  /\ manifest' = manifestFile
  /\ stats' = NoStats
  /\ xfer' = [n \in Names |-> 0]
  /\ startCase' = [n \in Names |-> caseOf(remote[n], manifestFile[n], localFs[n])]
  /\ did' = [n \in Names |-> NoDeed]
  /\ runQuiet' = TRUE
  /\ syncPc' = "list"
  /\ UNCHANGED <<syncStoreVars, enableUpload, remoteIndex, toDownload, locals,
                 lastUpload, quietPrev, lastRun, remoteWrites, localEdits>>
  /\ UNCHANGED otherThanSync

\* listAllObjects answers; remoteIndex and toDownload are built
SyncList ==
  /\ syncPc = "list"
  /\ remoteIndex' = [n \in Names |-> [exists |-> remote[n].exists, gen |-> remote[n].gen]]
  /\ toDownload' = toDownloadOf(remoteIndex', manifest)
  /\ syncPc' = "download"
  /\ UNCHANGED <<syncStoreVars, syncConfVars, manifest, locals, stats, syncLogVars>>
  /\ UNCHANGED otherThanSync

SyncThrows_Flushing ==
  /\ \/ syncPc = "list"
     \/ syncPc = "download" /\ toDownload # <<>>
  /\ syncPc' = "idle"
  /\ manifestFile' = [n \in Names |-> NoEntry]
  /\ manifest' = [n \in Names |-> NoEntry]
  /\ remoteIndex' = [n \in Names |-> NoListed]
  /\ toDownload' = <<>>
  /\ stats' = NoStats
  /\ runQuiet' = FALSE
  /\ quietPrev' = NoPrev
  /\ startCase' = [k \in Names |-> "none"]
  /\ did' = [k \in Names |-> NoDeed]
  /\ lastRun' = NoRun
  /\ UNCHANGED <<remote, genCounter, localFs, stampCounter, syncConfVars, locals, xfer,
                 lastUpload, syncRuns, remoteWrites, localEdits>>
  /\ UNCHANGED otherThanSync

\* the listing or a download answers neither 200 nor 404: the run throws,
\* nothing is written to the manifest file
SyncThrows ==
  /\ \/ syncPc = "list"
     \/ syncPc = "download" /\ toDownload # <<>>
  /\ syncPc' = "idle"
  /\ manifest' = [n \in Names |-> NoEntry]
  /\ remoteIndex' = [n \in Names |-> NoListed]
  /\ toDownload' = <<>>
  /\ stats' = NoStats
  /\ runQuiet' = FALSE
  /\ quietPrev' = NoPrev
  /\ startCase' = [k \in Names |-> "none"]
  /\ did' = [k \in Names |-> NoDeed]
  /\ lastRun' = NoRun
  /\ UNCHANGED <<syncStoreVars, syncConfVars, locals, xfer, lastUpload,
                 syncRuns, remoteWrites, localEdits>>
  /\ UNCHANGED otherThanSync

\* downloadObject answers 404 (false, nothing written) or 200: the file is
\* written with what the object holds now, and the manifest records the
\* generation seen by the listing
SyncDownload ==
  /\ syncPc = "download"
  /\ toDownload # <<>>
  /\ LET n == Head(toDownload)
     IN IF remote[n].exists
          THEN /\ stampCounter' = stampCounter + 1
               /\ localFs' = [localFs EXCEPT ![n] =
                    [exists |-> TRUE, content |-> remote[n].content,
                     stamp |-> stampCounter']]
               /\ manifest' = [manifest EXCEPT ![n] =
                    [exists |-> TRUE, remoteGen |-> wantGen(remoteIndex[n]),
                     stamp |-> stampCounter']]
               /\ stats' = [stats EXCEPT !.downloaded = @ + 1]
               /\ xfer' = [xfer EXCEPT ![n] = remote[n].gen]
               /\ did' = noted(n, "downloaded")
          ELSE UNCHANGED <<stampCounter, localFs, manifest, stats, xfer, did>>
  /\ toDownload' = Tail(toDownload)
  /\ UNCHANGED <<remote, genCounter, manifestFile, syncConfVars, syncPc, remoteIndex,
                 locals, startCase, lastUpload, runQuiet, quietPrev, lastRun,
                 syncRuns, remoteWrites, localEdits>>
  /\ UNCHANGED otherThanSync

\* if (GCS_ENABLE_UPLOAD): walkLocalFiles answers
SyncWalk ==
  /\ syncPc = "download"
  /\ toDownload = <<>>
  /\ enableUpload = "on"
  /\ locals' = walkLocalFiles(localFs)
  /\ syncPc' = "upload"
  /\ UNCHANGED <<syncStoreVars, syncConfVars, manifest, remoteIndex, toDownload,
                 stats, syncLogVars>>
  /\ UNCHANGED otherThanSync

\* const changedLocally = !(prev && prev.localMtime === ... && prev.localSize === ...)
changedLocally(prev, lf) == ~(prev.exists /\ prev.stamp = lf.stamp)

\* remote exists and its generation differs from what we recorded
conflictRemoteChanged(rem, prev) ==
  rem.exists /\ prev.exists /\ prev.remoteGen # 0 /\ rem.gen # prev.remoteGen

\* manifest missing and remote exists
conflictUntracked(rem, prev) == ~prev.exists /\ rem.exists

\* let ifMatch = undefined
NoPrecondition == 0 - 1

ifMatchOf_Unconditional(rem, prev) == NoPrecondition

\* the conditional upload that is prepared
ifMatchOf(rem, prev) ==
  IF rem.exists /\ prev.exists /\ prev.remoteGen # 0 THEN prev.remoteGen
  ELSE IF ~rem.exists THEN 0
  ELSE NoPrecondition

\* the object store's ifGenerationMatch: 0 asks for no live object, a
\* generation asks for that live generation, no parameter asks for nothing
storeAccepts(obj, ifm) ==
  \/ ifm = NoPrecondition
  \/ ifm = 0 /\ ~obj.exists
  \/ ifm # 0 /\ obj.exists /\ obj.gen = ifm

\* one pass of the loop over locals: skip, conflict, or one upload request
\* with its answer (fail: 5xx or transport error)
SyncUpload(fail) ==
  /\ syncPc = "upload"
  /\ locals # <<>>
  /\ locals' = Tail(locals)
  /\ LET lf == Head(locals)
         n == lf.name
         prev == manifest[n]
         rem == remoteIndex[n]
         ifm == ifMatchOf(rem, prev)
         request == [sent |-> TRUE, name |-> n, ifMatch |-> ifm, listed |-> rem.exists,
                     manifestGen |-> prev.remoteGen, existed |-> remote[n].exists,
                     genBefore |-> remote[n].gen, accepted |-> FALSE]
     IN IF ~changedLocally(prev, lf)
          THEN /\ ~fail
               /\ UNCHANGED <<remote, genCounter, manifest, stats, xfer, did,
                              lastUpload>>
        ELSE IF conflictRemoteChanged(rem, prev) \/ conflictUntracked(rem, prev)
          THEN /\ ~fail
               /\ stats' = [stats EXCEPT !.conflicts = @ + 1]
               /\ did' = noted(n, "conflict")
               /\ UNCHANGED <<remote, genCounter, manifest, xfer, lastUpload>>
        ELSE IF fail
          THEN /\ stats' = [stats EXCEPT !.rejected = @ + 1]
               /\ lastUpload' = request
               /\ UNCHANGED <<remote, genCounter, manifest, xfer, did>>
        ELSE IF ~canCreate
          THEN /\ stats' = [stats EXCEPT !.conflicts = @ + 1, !.rejected = @ + 1]
               /\ did' = noted(n, "conflict")
               /\ lastUpload' = request
               /\ UNCHANGED <<remote, genCounter, manifest, xfer>>
        ELSE IF ~storeAccepts(remote[n], ifm)
          THEN /\ stats' = [stats EXCEPT !.rejected = @ + 1]
               /\ lastUpload' = request
               /\ UNCHANGED <<remote, genCounter, manifest, xfer, did>>
        ELSE /\ genCounter' = genCounter + 1
             /\ remote' = [remote EXCEPT ![n] =
                  [exists |-> TRUE, gen |-> genCounter', content |-> localFs[n].content]]
             /\ manifest' = [manifest EXCEPT ![n] =
                  [exists |-> TRUE, remoteGen |-> genCounter', stamp |-> lf.stamp]]
             /\ stats' = [stats EXCEPT !.uploaded = @ + 1]
             /\ xfer' = [xfer EXCEPT ![n] = genCounter']
             /\ did' = noted(n, "uploaded")
             /\ lastUpload' = [request EXCEPT !.accepted = TRUE]
  /\ UNCHANGED <<localFs, stampCounter, manifestFile, syncConfVars, syncPc, remoteIndex,
                 toDownload, startCase, runQuiet, quietPrev, lastRun, syncRuns,
                 remoteWrites, localEdits>>
  /\ UNCHANGED otherThanSync

\* writeManifest, then return { scannedRemote, downloaded, uploaded, conflicts }
SyncWrite ==
  /\ \/ syncPc = "download" /\ toDownload = <<>> /\ enableUpload = "off"
     \/ syncPc = "upload" /\ locals = <<>>
  /\ manifestFile' = manifest
  /\ lastRun' = [completed |-> TRUE,
                 secondQuiet |-> quietPrev.valid /\ runQuiet,
                 firstAccepted |-> quietPrev.accepted,
                 firstBusy |-> quietPrev.busy,
                 downloaded |-> stats.downloaded,
                 uploaded |-> stats.uploaded,
                 conflicts |-> stats.conflicts]
  /\ quietPrev' = [valid |-> runQuiet, accepted |-> stats.rejected = 0,
                   busy |-> stats.downloaded + stats.uploaded > 0]
  /\ syncPc' = "idle"
  /\ manifest' = [n \in Names |-> NoEntry]
  /\ remoteIndex' = [n \in Names |-> NoListed]
  /\ stats' = NoStats
  /\ UNCHANGED <<remote, genCounter, localFs, stampCounter, syncConfVars, toDownload,
                 locals, xfer, startCase, did, lastUpload, runQuiet, syncRuns,
                 remoteWrites, localEdits>>
  /\ UNCHANGED otherThanSync

SyncNext ==
  \/ \E enabled \in BOOLEAN : SyncBoot(enabled)
  \/ \E n \in Names : RemoteWrite(n)
  \/ \E n \in Names : RemoteDelete(n)
  \/ \E n \in Names : LocalEdit(n)
  \/ \E tokenCanCreate \in BOOLEAN : SyncStart(tokenCanCreate)
  \/ SyncList
  \/ SyncThrows
  \/ SyncDownload
  \/ SyncWalk
  \/ \E fail \in BOOLEAN : SyncUpload(fail)
  \/ SyncWrite

SyncSpec == Init /\ [][SyncNext]_vars

\* ========================================================= Tool Dispatcher
\* The consumer's stream client and dispatcher (cloud/sse-consumer/app/
\* server.js, storage.js) are described from sections 4.3 and 4.4 of the
\* specification and from the consumer README.  Events are handled one at a
\* time; an event id is its position in the upstream's stream.

\* the derived work root, as path components below the filesystem root
workRoot == <<"w">>

RelPath(comps) == [abs |-> FALSE, comps |-> comps]
AbsPath(comps) == [abs |-> TRUE, comps |-> comps]

\* the filepath arguments tried
ToolPaths ==
  { RelPath(<<"a">>), RelPath(<<"a", "..", "a">>), RelPath(<<"..", "a">>),
    RelPath(<<"a", "..", "..", "a">>), RelPath(<<"..", "w", "a">>),
    AbsPath(<<"w", "a">>) }

\* the files a shell command may touch
CommandTargets == { AbsPath(<<"w", "a">>), AbsPath(<<"tmp">>) }

FileTools == {"READ_FILE", "UPDATE_FILE"}

\* the tool calls tried; throws: the handler fails for a reason of its own
\* (ENOENT on a read, a shell that cannot be spawned)
Calls ==
  [present : {TRUE}, tool : FileTools, path : ToolPaths, throws : {FALSE}]
    \cup [present : {TRUE}, tool : {"READ_FILE"}, path : {RelPath(<<"a">>)},
          throws : {TRUE}]
    \cup [present : {TRUE}, tool : {"RUN_COMMAND"}, path : CommandTargets,
          throws : {FALSE}]
    \cup [present : {TRUE}, tool : {"RUN_COMMAND"}, path : {AbsPath(<<"w", "a">>)},
          throws : {TRUE}]

IsPrefix(a, b) == Len(a) <= Len(b) /\ SubSeq(b, 1, Len(a)) = a

\* canonical resolution of comps against the directory base
RECURSIVE resolve(_, _)
resolve(base, comps) ==
  IF comps = <<>> THEN base
  ELSE IF Head(comps) = ".."
    THEN resolve(IF base = <<>> THEN base ELSE SubSeq(base, 1, Len(base) - 1),
                 Tail(comps))
  ELSE resolve(Append(base, Head(comps)), Tail(comps))

PathEscape == [ok |-> FALSE, path |-> <<>>]

resolveWithin_LeadingOnly(root, p) ==
  IF p.abs \/ (p.comps # <<>> /\ Head(p.comps) = "..")
    THEN PathEscape
    ELSE [ok |-> TRUE, path |-> resolve(root, p.comps)]

\* rejects absolute paths and any component that resolves outside root
resolveWithin(root, p) ==
  IF p.abs \/ \E k \in 1..Len(p.comps) :
                 ~IsPrefix(root, resolve(root, SubSeq(p.comps, 1, k)))
    THEN PathEscape
    ELSE [ok |-> TRUE, path |-> resolve(root, p.comps)]

isDuplicate_Never(e, cursor) == FALSE

\* dedupe by lastEventId
isDuplicate(e, cursor) == e <= cursor

handlerThrowOutcome_Transport == "retry"

\* a failure thrown by a handler becomes a result
handlerThrowOutcome == "result"

\* the stream is opened: GET /sessions/consume (pull) or POST /sessions/stream
StreamOpen(mode) ==
  /\ streamMode = "closed"
  /\ streamMode' = mode
  /\ UNCHANGED <<upNext, lastEventId, dsPc, cur, evCall, dispatched, emitted,
                 records, fsEffects, reconnects, dupsDropped>>
  /\ UNCHANGED otherThanDisp

\* the next event arrives: a duplicate is dropped, a new event is dispatched
Deliver(call) ==
  /\ streamMode # "closed"
  /\ dsPc = "idle"
  /\ upNext <= NumEvents
  /\ upNext' = upNext + 1
  /\ IF evCall[upNext].present THEN call = evCall[upNext] ELSE TRUE
  /\ IF isDuplicate(upNext, lastEventId)
       THEN /\ dupsDropped' = dupsDropped + 1
            /\ UNCHANGED <<dsPc, cur, evCall, dispatched>>
       ELSE /\ evCall' = [evCall EXCEPT ![upNext] = call]
            /\ dispatched' = [dispatched EXCEPT ![upNext] = @ + 1]
            /\ cur' = upNext
            /\ dsPc' = "handling"
            /\ UNCHANGED dupsDropped
  /\ UNCHANGED <<streamMode, lastEventId, emitted, records, fsEffects, reconnects>>
  /\ UNCHANGED otherThanDisp

\* what the handler of one tool_call does: its value or its failure, and the
\* files it reads or writes.  RUN_COMMAND runs a shell with cwd = workRoot;
\* its command names the file it touches.
runTool(e, call) ==
  IF call.tool \in FileTools
    THEN LET r == resolveWithin(workRoot, call.path)
         IN IF ~r.ok
              THEN [result |-> "null", error |-> "path_escape", effects |-> {}]
            ELSE IF call.throws
              THEN [result |-> "null", error |-> "not_found",
                    effects |-> {[event |-> e, tool |-> call.tool, path |-> r.path]}]
            ELSE [result |-> "value", error |-> "",
                  effects |-> {[event |-> e, tool |-> call.tool, path |-> r.path]}]
    ELSE [result |-> IF call.throws THEN "null" ELSE "value",
          error |-> IF call.throws THEN "spawn_failed" ELSE "",
          effects |-> {[event |-> e, tool |-> call.tool, path |-> call.path.comps]}]

\* the awaited handler completes; the result record is built
HandlerDone ==
  /\ dsPc = "handling"
  /\ LET out == runTool(cur, evCall[cur])
     IN /\ fsEffects' = fsEffects \cup out.effects
        /\ IF out.error # "" /\ handlerThrowOutcome = "retry"
             THEN /\ dsPc' = "idle"
                  /\ cur' = 0
                  /\ upNext' = cur
                  /\ UNCHANGED records
             ELSE /\ records' = [records EXCEPT ![cur] =
                       [present |-> TRUE, result |-> out.result, error |-> out.error,
                        via |-> "none", delivered |-> FALSE]]
                  /\ dsPc' = "emit"
                  /\ UNCHANGED <<cur, upNext>>
  /\ UNCHANGED <<streamMode, lastEventId, evCall, dispatched, emitted, reconnects,
                 dupsDropped>>
  /\ UNCHANGED otherThanDisp

\* the result is emitted: one response line (push) or one postCallback call
\* (pull), which returns or throws; the cursor advances
Emit(callbackOk) ==
  /\ dsPc = "emit"
  /\ streamMode = "push" => callbackOk
  /\ emitted' = [emitted EXCEPT ![cur] = @ + 1]
  /\ records' = [records EXCEPT ![cur].via =
       (IF streamMode = "pull" THEN "callback" ELSE "line"),
       ![cur].delivered = callbackOk]
  /\ lastEventId' = cur
  /\ cur' = 0
  /\ dsPc' = "idle"
  /\ UNCHANGED <<streamMode, upNext, evCall, dispatched, fsEffects, reconnects,
                 dupsDropped>>
  /\ UNCHANGED otherThanDisp

\* the pull connection ends, errors or idles out; the client reconnects and
\* the upstream resumes at or before the event after the cursor
Reconnect(from) ==
  /\ streamMode = "pull"
  /\ reconnects < MaxReconnects
  /\ from <= lastEventId + 1
  /\ reconnects' = reconnects + 1
  /\ upNext' = from
  /\ UNCHANGED <<streamMode, lastEventId, dsPc, cur, evCall, dispatched, emitted,
                 records, fsEffects, dupsDropped>>
  /\ UNCHANGED otherThanDisp

DispatchNext ==
  \/ \E mode \in {"push", "pull"} : StreamOpen(mode)
  \/ \E call \in Calls : Deliver(call)
  \/ HandlerDone
  \/ \E callbackOk \in BOOLEAN : Emit(callbackOk)
  \/ \E from \in Events : Reconnect(from)

DispatchSpec == Init /\ [][DispatchNext]_vars

\* ============================================================ sync triggers
\* The consumer's sync lifecycle (cloud/sse-consumer/app/server.js is not among
\* the sources; modelled from specification 4.5): an initial sync when the
\* stream starts, a periodic sync every SYNC_INTERVAL_MS while it is open, a
\* final sync on shutdown; a trigger that finds a run in progress for its work
\* root starts none.

\* the most runs a work root can have started: one per trigger
MaxTriggers == MaxPeriodic + 2

shouldCoalesce_Never(flag) == FALSE

\* the test a trigger makes before it starts a run
shouldCoalesce(flag) == flag

\* one trigger for work root w: coalesced, or a run of syncBucketPrefix starts
\* (it reads the manifest first)
trigger(w, kind) ==
  /\ lastTrigger' = [present |-> TRUE, workRoot |-> w, kind |-> kind,
                     busy |-> runPcs[w] # <<>>,
                     started |-> ~shouldCoalesce(syncing[w])]
  /\ IF shouldCoalesce(syncing[w])
       THEN /\ coalesced' = [coalesced EXCEPT ![w] = @ + 1]
            /\ UNCHANGED <<syncing, runPcs>>
       ELSE /\ syncing' = [syncing EXCEPT ![w] = TRUE]
            /\ runPcs' = [runPcs EXCEPT ![w] = Append(@, "read")]
            /\ UNCHANGED coalesced

\* the event stream of w opens: initial sync
StreamStart(w) ==
  /\ stream[w] = "closed"
  /\ stream' = [stream EXCEPT ![w] = "open"]
  /\ trigger(w, "initial")
  /\ UNCHANGED periodic
  /\ UNCHANGED otherThanSched

\* the interval timer of w fires while the stream is open
SyncTick(w) ==
  /\ stream[w] = "open"
  /\ periodic[w] < MaxPeriodic
  /\ periodic' = [periodic EXCEPT ![w] = @ + 1]
  /\ trigger(w, "periodic")
  /\ UNCHANGED stream
  /\ UNCHANGED otherThanSched

\* shutdown of the stream of w: final sync
StreamStop(w) ==
  /\ stream[w] = "open"
  /\ stream' = [stream EXCEPT ![w] = "stopped"]
  /\ trigger(w, "final")
  /\ UNCHANGED periodic
  /\ UNCHANGED otherThanSched

\* the i-th run in progress for w moves on: manifest read, transfers done
RunStep(w, i) ==
  /\ i \in 1..Len(runPcs[w])
  /\ runPcs[w][i] \in {"read", "transfer"}
  /\ runPcs' = [runPcs EXCEPT ![w][i] = IF @ = "read" THEN "transfer" ELSE "write"]
  /\ UNCHANGED <<stream, syncing, periodic, coalesced, lastTrigger>>
  /\ UNCHANGED otherThanSched

\* the i-th run for w rewrites the manifest and returns or throws: the flag is
\* cleared
RunEnd(w, i) ==
  /\ i \in 1..Len(runPcs[w])
  /\ runPcs[w][i] = "write"
  /\ runPcs' = [runPcs EXCEPT ![w] =
       SubSeq(@, 1, i - 1) \o SubSeq(@, i + 1, Len(@))]
  /\ syncing' = [syncing EXCEPT ![w] = FALSE]
  /\ UNCHANGED <<stream, periodic, coalesced, lastTrigger>>
  /\ UNCHANGED otherThanSched

SchedNext ==
  \/ \E w \in WorkRoots : StreamStart(w)
  \/ \E w \in WorkRoots : SyncTick(w)
  \/ \E w \in WorkRoots : StreamStop(w)
  \/ \E w \in WorkRoots : \E i \in 1..MaxTriggers : RunStep(w, i)
  \/ \E w \in WorkRoots : \E i \in 1..MaxTriggers : RunEnd(w, i)

SchedSpec == Init /\ [][SchedNext]_vars

\* ========================================================= gracefulShutdown
\* shutdown.js of the runner: every await of gracefulShutdown is a race of
\* the step against a timer; the steps themselves go on in the background
\* after their timer has won, until the process exits.

\* values of SHUTDOWN_TIMEOUT_MS a deployment may configure
Timeouts == {600, 4000}

\* how long a step that finishes may take, in ms
Durations == {0, 400, 1500, 4000}

ExitCodes == {0, 1}

stepBudget_Whole == Max(500, SHUTDOWN_TIMEOUT_MS)

\* Math.max(500, Math.floor(SHUTDOWN_TIMEOUT_MS / 2))
stepBudget == Max(500, SHUTDOWN_TIMEOUT_MS \div 2)

\* Promise.race([step, timer]): the time awaited when the step needs d ms,
\* or never finishes
raceElapsed(finished, d) == IF finished /\ d < stepBudget THEN d ELSE stepBudget

raceWinner(finished, d) == IF finished /\ d < stepBudget THEN "step" ELSE "timer"

\* config.js is loaded
SdLoadConfig(t) ==
  /\ sdPc = "boot"
  /\ SHUTDOWN_TIMEOUT_MS' = t
  /\ sdPc' = "up"
  /\ UNCHANGED <<shuttingDown, firstCode, exitCode, hookState, stopState, stopAttempts,
                 relState, relAttempts, took, sdLog, signals>>
  /\ UNCHANGED otherThanSd

returnsAtOnce_Never == FALSE

\* if (shuttingDown) return; // idempotent
returnsAtOnce == shuttingDown

\* a signal, beforeExit, uncaughtException or unhandledRejection calls
\* gracefulShutdown(code): a second call returns at once, the first one calls
\* runShutdownHooks and awaits its race
gracefulShutdown(code) ==
  /\ sdPc \in {"up", "hooks", "stop", "release"}
  /\ Len(signals) < MaxSignals
  /\ signals' = Append(signals, code)
  /\ IF returnsAtOnce
       THEN UNCHANGED <<shuttingDown, sdPc, firstCode, hookState, sdLog>>
       ELSE /\ shuttingDown' = TRUE
            /\ firstCode' = code
            /\ hookState' = [h \in Hooks |-> "running"]
            /\ sdLog' = Append(sdLog, "hooks")
            /\ sdPc' = "hooks"
  /\ UNCHANGED <<SHUTDOWN_TIMEOUT_MS, exitCode, stopState, stopAttempts, relState,
                 relAttempts, took>>
  /\ UNCHANGED otherThanSd

\* a hook returns or throws (a hook that hangs never does)
HookSettles(h, ok) ==
  /\ sdPc \in {"hooks", "stop", "release"}
  /\ hookState[h] = "running"
  /\ hookState' = [hookState EXCEPT ![h] = IF ok THEN "done" ELSE "threw"]
  /\ UNCHANGED <<SHUTDOWN_TIMEOUT_MS, shuttingDown, sdPc, firstCode, exitCode, stopState,
                 stopAttempts, relState, relAttempts, took, sdLog, signals>>
  /\ UNCHANGED otherThanSd

\* step 1 is over: allSettled after d ms, or the timer; postUnifiedStop is
\* called
HooksRace(d) ==
  /\ sdPc = "hooks"
  /\ LET finished == \A h \in Hooks : hookState[h] \in {"done", "threw"}
     IN /\ took' = [took EXCEPT !["hooks"] = raceElapsed(finished, d)]
        /\ sdLog' = sdLog \o <<"hooks_" \o raceWinner(finished, d), "stop">>
  /\ stopState' = "running"
  /\ sdPc' = "stop"
  /\ UNCHANGED <<SHUTDOWN_TIMEOUT_MS, shuttingDown, firstCode, exitCode, hookState,
                 stopAttempts, relState, relAttempts, signals>>
  /\ UNCHANGED otherThanSd

\* getWorkflowsIdTokenHeaders rejects: postUnifiedStop rejects
StopThrows ==
  /\ sdPc \in {"stop", "release"}
  /\ stopState = "running"
  /\ stopAttempts = 0
  /\ stopState' = "threw"
  /\ UNCHANGED <<SHUTDOWN_TIMEOUT_MS, shuttingDown, sdPc, firstCode, exitCode, hookState,
                 stopAttempts, relState, relAttempts, took, sdLog, signals>>
  /\ UNCHANGED otherThanSd

\* one POST to /producer/stop and its answer; after the last failure and
\* its backoff postUnifiedStop returns false
StopPost(ok) ==
  /\ sdPc \in {"stop", "release"}
  /\ stopState = "running"
  /\ stopAttempts < maxAttemptsStop
  /\ stopAttempts' = stopAttempts + 1
  /\ stopState' = IF ok THEN "ok"
                  ELSE IF stopAttempts' = maxAttemptsStop THEN "failed"
                  ELSE "running"
  /\ UNCHANGED <<SHUTDOWN_TIMEOUT_MS, shuttingDown, sdPc, firstCode, exitCode, hookState,
                 relState, relAttempts, took, sdLog, signals>>
  /\ UNCHANGED otherThanSd

needsRelease_Always(stopOk) == TRUE

\* if (!stopOk)
needsRelease(stopOk) == ~stopOk

\* step 2 is over. stopOk: process.exit; a rejection: catch, process.exit;
\* otherwise releaseProjectLock is called
StopRace(d) ==
  /\ sdPc = "stop"
  /\ LET finished == stopState \in {"ok", "failed", "threw"}
         winner == raceWinner(finished, d)
         stopOk == winner = "step" /\ stopState = "ok"
         rejected == winner = "step" /\ stopState = "threw"
         ending == IF winner = "timer" THEN "stop_timer" ELSE "stop_" \o stopState
     IN /\ took' = [took EXCEPT !["stop"] = raceElapsed(finished, d)]
        /\ IF rejected \/ ~needsRelease(stopOk)
             THEN /\ sdLog' = sdLog \o <<ending, "exit">>
                  /\ exitCode' = firstCode
                  /\ sdPc' = "exited"
                  /\ UNCHANGED relState
             ELSE /\ sdLog' = sdLog \o <<ending, "release">>
                  /\ relState' = "running"
                  /\ sdPc' = "release"
                  /\ UNCHANGED exitCode
  /\ UNCHANGED <<SHUTDOWN_TIMEOUT_MS, shuttingDown, firstCode, hookState, stopState,
                 stopAttempts, relAttempts, signals>>
  /\ UNCHANGED otherThanSd

\* one POST to consumer-lock/release and its answer, or the auth header call
\* rejects (caught: false is returned)
ReleasePost(outcome) ==
  /\ sdPc = "release"
  /\ relState = "running"
  /\ relAttempts < maxAttemptsRelease
  /\ outcome = "auth" => relAttempts = 0
  /\ relAttempts' = IF outcome = "auth" THEN relAttempts ELSE relAttempts + 1
  /\ relState' = IF outcome = "ok" THEN "ok"
                 ELSE IF outcome = "auth" \/ relAttempts' = maxAttemptsRelease
                   THEN "failed"
                 ELSE "running"
  /\ UNCHANGED <<SHUTDOWN_TIMEOUT_MS, shuttingDown, sdPc, firstCode, exitCode, hookState,
                 stopState, stopAttempts, took, sdLog, signals>>
  /\ UNCHANGED otherThanSd

\* step 3 is over: process.exit(code)
ReleaseRace(d) ==
  /\ sdPc = "release"
  /\ LET finished == relState \in {"ok", "failed"}
         ending == IF raceWinner(finished, d) = "timer" THEN "release_timer"
                   ELSE "release_" \o relState
     IN /\ took' = [took EXCEPT !["release"] = raceElapsed(finished, d)]
        /\ sdLog' = sdLog \o <<ending, "exit">>
  /\ exitCode' = firstCode
  /\ sdPc' = "exited"
  /\ UNCHANGED <<SHUTDOWN_TIMEOUT_MS, shuttingDown, firstCode, hookState, stopState,
                 stopAttempts, relState, relAttempts, signals>>
  /\ UNCHANGED otherThanSd

\* the awaits of gracefulShutdown: each is resolved by the step or its timer
SdRaces ==
  \/ \E d \in Durations : HooksRace(d)
  \/ \E d \in Durations : StopRace(d)
  \/ \E d \in Durations : ReleaseRace(d)

ShutdownNext ==
  \/ \E t \in Timeouts : SdLoadConfig(t)
  \/ \E code \in ExitCodes : gracefulShutdown(code)
  \/ \E h \in Hooks : \E ok \in BOOLEAN : HookSettles(h, ok)
  \/ StopThrows
  \/ \E ok \in BOOLEAN : StopPost(ok)
  \/ \E outcome \in {"ok", "fail", "auth"} : ReleasePost(outcome)
  \/ \E d \in Durations : HooksRace(d)
  \/ \E d \in Durations : StopRace(d)
  \/ \E d \in Durations : ReleaseRace(d)

ShutdownSpec == Init /\ [][ShutdownNext]_vars

\* timers fire: no await of gracefulShutdown lasts forever
ShutdownFairSpec == ShutdownSpec /\ WF_vars(SdRaces)

\* ============================================================ statusUpdate
\* POST /workflows/exec/status/update: each await is a step, so requests for
\* one execId interleave between the read of the document and its write.

StatusBodies ==
  [execId : StatusExecs \union {0}, status : {"", "RUNNING", "DONE"}]

\* a second passes
StTick ==
  /\ stNow < 1 + MaxStTicks
  /\ stNow' = stNow + 1
  /\ UNCHANGED <<statusDocs, mirrored, suPc, suBody, suLocal, firstCreated>>
  /\ UNCHANGED otherThanSt

\* the request arrives: 400 without execId or without any field to update;
\* otherwise nowSec is taken and ref.get() is awaited
SuCall(r, b) ==
  /\ suPc[r] = "idle"
  /\ suBody' = [suBody EXCEPT ![r] = b]
  /\ IF b.execId = 0 \/ b.status = ""
       THEN /\ suPc' = [suPc EXCEPT ![r] = "rejected"]
            /\ UNCHANGED suLocal
       ELSE /\ suPc' = [suPc EXCEPT ![r] = "get"]
            /\ suLocal' = [suLocal EXCEPT ![r] = [NoStatusLocal EXCEPT !.nowSec = stNow]]
  /\ UNCHANGED <<stNow, statusDocs, mirrored, firstCreated>>
  /\ UNCHANGED otherThanSt

\* const created = existing.exists ? (existing.get('created') || nowSec) : nowSec
createdOf(existing, nowSec) ==
  IF existing.exists
    THEN (IF existing.created # 0 THEN existing.created ELSE nowSec)
    ELSE nowSec

\* ref.get() answers
SuGet(r) ==
  /\ suPc[r] = "get"
  /\ LET existing == statusDocs[suBody[r].execId]
     IN suLocal' = [suLocal EXCEPT ![r].exists = existing.exists,
                                   ![r].created = createdOf(existing, suLocal[r].nowSec)]
  /\ suPc' = [suPc EXCEPT ![r] = "set"]
  /\ UNCHANGED <<stNow, statusDocs, mirrored, suBody, firstCreated>>
  /\ UNCHANGED otherThanSt

\* ref.set(payload, { merge: true }) is applied
SuSet(r) ==
  /\ suPc[r] = "set"
  /\ LET e == suBody[r].execId
     IN /\ statusDocs' = [statusDocs EXCEPT ![e] =
              [exists |-> TRUE, created |-> suLocal[r].created,
               updated |-> suLocal[r].nowSec, status |-> suBody[r].status]]
        /\ firstCreated' = [firstCreated EXCEPT ![e] =
              IF statusDocs[e].exists THEN @ ELSE suLocal[r].created]
  /\ suPc' = [suPc EXCEPT ![r] = "mirror"]
  /\ UNCHANGED <<stNow, mirrored, suBody, suLocal>>
  /\ UNCHANGED otherThanSt

\* the best-effort mirror onto the ExecReg (ok), or it fails or finds no
\* ExecReg; 200 is answered either way
SuMirror(r, ok) ==
  /\ suPc[r] = "mirror"
  /\ mirrored' = IF ok THEN [mirrored EXCEPT ![suBody[r].execId] = suBody[r].status]
                 ELSE mirrored
  /\ suPc' = [suPc EXCEPT ![r] = "done"]
  /\ UNCHANGED <<stNow, statusDocs, suBody, suLocal, firstCreated>>
  /\ UNCHANGED otherThanSt

StatusNext ==
  \/ StTick
  \/ \E r \in StatusReqs : \E b \in StatusBodies : SuCall(r, b)
  \/ \E r \in StatusReqs : SuGet(r)
  \/ \E r \in StatusReqs : SuSet(r)
  \/ \E r \in StatusReqs : \E ok \in BOOLEAN : SuMirror(r, ok)

StatusSpec == Init /\ [][StatusNext]_vars

\* =========================================================== Exec Registry
\* ExecReg documents are written when a workflow starts (that code is not
\* among the sources; modelled from specification 3 and 4.6). ExecLinks are
\* written by POST /workflows/exec/links/register, and POST /workflows/exec/tree
\* reads both collections, one after the other.

\* the registry is followed up to the answer of the tree request
Observing == trPc # "done"

\* a second passes
RgTick ==
  /\ Observing
  /\ rgNow < 1 + MaxRgTicks
  /\ rgNow' = rgNow + 1
  /\ UNCHANGED <<execRegs, execLinks, rgLinkVars, rgTreeVars>>
  /\ UNCHANGED otherThanRg

\* a workflow starts: its ExecReg is created
RegisterExec(e, sess) ==
  /\ Observing
  /\ ~execRegs[e].exists
  /\ execRegs' = [execRegs EXCEPT ![e] =
       [exists |-> TRUE, sessionId |-> sess, created |-> rgNow]]
  /\ UNCHANGED <<rgNow, execLinks, rgLinkVars, rgTreeVars>>
  /\ UNCHANGED otherThanRg

\* created: typeof created === 'number' ? created : Math.floor(Date.now() / 1000)
\* (0 - 1 stands for a body without created)
linkCreated(created) == IF created >= 0 THEN created ELSE rgNow

\* the request arrives: 400 without callingExecId, triggeredExecId or
\* sessionId; otherwise the payload is built and ref.create is awaited
LrCall(r, c, t, sess, created) ==
  /\ Observing
  /\ lrPc[r] = "idle"
  /\ lrCalls < MaxLinkCalls
  /\ lrCalls' = lrCalls + 1
  /\ IF c = 0 \/ t = 0 \/ sess = 0
       THEN UNCHANGED <<lrPc, lrPayload>>
       ELSE /\ <<c, t>> \in LinkIds
            /\ lrPc' = [lrPc EXCEPT ![r] = "create"]
            /\ lrPayload' = [lrPayload EXCEPT ![r] =
                 [exists |-> TRUE, callingExec |-> c, triggeredExec |-> t,
                  sessionId |-> sess, created |-> linkCreated(created)]]
  /\ UNCHANGED <<rgDocVars, firstLink, rgTreeVars>>
  /\ UNCHANGED otherThanRg

\* const id = `${String(callingExecId)}:${String(triggeredExecId)}`
linkId(doc) == <<doc.callingExec, doc.triggeredExec>>

\* ref.create(payload) answers: created, or ALREADY_EXISTS and ref.set is
\* awaited
LrCreate(r) ==
  /\ Observing
  /\ lrPc[r] = "create"
  /\ LET id == linkId(lrPayload[r])
     IN IF execLinks[id].exists
          THEN /\ lrPc' = [lrPc EXCEPT ![r] = "set"]
               /\ UNCHANGED <<execLinks, firstLink, lrPayload>>
          ELSE /\ execLinks' = [execLinks EXCEPT ![id] = lrPayload[r]]
               /\ firstLink' = [firstLink EXCEPT ![id] = lrPayload[r]]
               /\ lrPc' = [lrPc EXCEPT ![r] = "idle"]
               /\ lrPayload' = [lrPayload EXCEPT ![r] = NoLink]
  /\ UNCHANGED <<rgNow, execRegs, lrCalls, rgTreeVars>>
  /\ UNCHANGED otherThanRg

\* ref.set(payload, { merge: true }) is applied
LrSet(r) ==
  /\ Observing
  /\ lrPc[r] = "set"
  /\ execLinks' = [execLinks EXCEPT ![linkId(lrPayload[r])] = lrPayload[r]]
  /\ lrPc' = [lrPc EXCEPT ![r] = "idle"]
  /\ lrPayload' = [lrPayload EXCEPT ![r] = NoLink]
  /\ UNCHANGED <<rgNow, execRegs, lrCalls, firstLink, rgTreeVars>>
  /\ UNCHANGED otherThanRg

\* ---- POST /workflows/exec/tree

\* .where('sessionId', '==', sessionId).orderBy('created', 'desc'): the exec
\* ids of the session, newest first (equal created: higher id first)
RECURSIVE regsDesc(_, _)
regsDesc(regs, S) ==
  IF S = {} THEN <<>>
  ELSE LET newest == CHOOSE x \in S : \A y \in S :
                       \/ regs[x].created > regs[y].created
                       \/ regs[x].created = regs[y].created /\ x >= y
       IN <<newest>> \o regsDesc(regs, S \ {newest})

\* execIds, in the order of regsSnap.docs
execIdsOf(regs, sess) ==
  regsDesc(regs, {e \in ExecIds : regs[e].exists /\ regs[e].sessionId = sess})

\* childrenByParent.get(parent): the links of the session with that
\* callingExec, in the order of linksSnap.docs
nextItemsOf(links, sess, parent) ==
  LET Mine(k) == links[k].exists /\ links[k].sessionId = sess
                   /\ links[k].callingExec = parent
      keys == SelectSeq(LinkKeys, Mine)
  IN [i \in 1..Len(keys) |->
        [id |-> links[keys[i]].triggeredExec, created |-> links[keys[i]].created]]

\* hasParent
hasParentOf(links, sess) ==
  {links[k].triggeredExec : k \in {j \in LinkIds : links[j].exists /\ links[j].sessionId = sess}}

sortAsc_Unsorted(items) == items

\* nextItems.sort((a, b) => (a.created || 0) - (b.created || 0)): stable
RECURSIVE sortAsc(_)
sortAsc(items) ==
  IF items = <<>> THEN <<>>
  ELSE LET least == CHOOSE i \in 1..Len(items) :
                      /\ \A j \in 1..Len(items) : items[i].created <= items[j].created
                      /\ \A j \in 1..(i - 1) : items[j].created > items[i].created
       IN <<items[least]>>
            \o sortAsc(SubSeq(items, 1, least - 1) \o SubSeq(items, least + 1, Len(items)))

\* createdByExec.get(execId) || 0
createdByExec(regs, sess, e) ==
  IF regs[e].exists /\ regs[e].sessionId = sess THEN regs[e].created ELSE 0

\* buildNode(execId) with the visited set it shares with all other calls;
\* buildChildren is its loop over nextItems
RECURSIVE buildNode(_, _, _), buildChildren(_, _, _)
buildNode(ctx, execId, visited) ==
  IF execId \in visited
    THEN [node |-> [execId |-> execId,
                    created |-> createdByExec(ctx.regs, ctx.sess, execId),
                    children |-> <<>>],
          visited |-> visited]
    ELSE LET built == buildChildren(ctx,
                        sortAsc(nextItemsOf(ctx.links, ctx.sess, execId)),
                        visited \union {execId})
         IN [node |-> [execId |-> execId,
                       created |-> createdByExec(ctx.regs, ctx.sess, execId),
                       children |-> built.nodes],
             visited |-> built.visited]

buildChildren(ctx, items, visited) ==
  IF items = <<>> THEN [nodes |-> <<>>, visited |-> visited]
  ELSE LET first == buildNode(ctx, Head(items).id, visited)
           rest == buildChildren(ctx, Tail(items), first.visited)
       IN [nodes |-> <<first.node>> \o rest.nodes, visited |-> rest.visited]

rootsOf_NoFallback(ctx) ==
  LET parented == hasParentOf(ctx.links, ctx.sess)
      IsRoot(e) == e \notin parented
  IN SelectSeq(execIdsOf(ctx.regs, ctx.sess), IsRoot)

\* roots: the execs that never appear as a child, or the newest exec when
\* there is none
rootsOf(ctx) ==
  LET ids == execIdsOf(ctx.regs, ctx.sess)
      parented == hasParentOf(ctx.links, ctx.sess)
      IsRoot(e) == e \notin parented
      roots == SelectSeq(ids, IsRoot)
  IN IF roots = <<>> THEN <<Head(ids)>> ELSE roots

\* for (const r of roots) trees.push(await buildNode(r))
RECURSIVE buildTrees(_, _, _)
buildTrees(ctx, roots, visited) ==
  IF roots = <<>> THEN <<>>
  ELSE LET first == buildNode(ctx, Head(roots), visited)
       IN <<first.node>> \o buildTrees(ctx, Tail(roots), first.visited)

\* trees.sort((a, b) => (b.created || 0) - (a.created || 0)): stable
RECURSIVE sortDesc(_)
sortDesc(ts) ==
  IF ts = <<>> THEN <<>>
  ELSE LET top == CHOOSE i \in 1..Len(ts) :
                    /\ \A j \in 1..Len(ts) : ts[i].created >= ts[j].created
                    /\ \A j \in 1..(i - 1) : ts[j].created < ts[i].created
       IN <<ts[top]>> \o sortDesc(SubSeq(ts, 1, top - 1) \o SubSeq(ts, top + 1, Len(ts)))

\* the trees of the answer
treesOf(ctx, latestOnly) ==
  IF latestOnly
    THEN <<buildNode(ctx, Head(execIdsOf(ctx.regs, ctx.sess)), {}).node>>
    ELSE sortDesc(buildTrees(ctx, rootsOf(ctx), {}))

\* the request has arrived and regsSnap answers: 404 when it is empty,
\* otherwise the query on the ExecLinks is awaited
TreeRegs(sess, latestOnly) ==
  /\ trPc = "idle"
  /\ IF execIdsOf(execRegs, sess) = <<>>
       THEN UNCHANGED <<trPc, trSession, trLatestOnly, regsSnap>>
       ELSE /\ trSession' = sess
            /\ trLatestOnly' = latestOnly
            /\ regsSnap' = execRegs
            /\ trPc' = "links"
  /\ UNCHANGED <<rgDocVars, rgLinkVars, linksSnap, trees>>
  /\ UNCHANGED otherThanRg

\* linksSnap answers; the trees are built and returned
TreeLinks ==
  /\ trPc = "links"
  /\ linksSnap' = execLinks
  /\ trees' = treesOf([regs |-> regsSnap, links |-> execLinks, sess |-> trSession],
                       trLatestOnly)
  /\ trPc' = "done"
  /\ UNCHANGED <<rgDocVars, rgLinkVars, trLatestOnly, trSession, regsSnap>>
  /\ UNCHANGED otherThanRg

RegistryNext ==
  \/ RgTick
  \/ \E e \in ExecIds : \E sess \in Sessions : RegisterExec(e, sess)
  \/ \E r \in LinkReqs : \E c, t \in ExecIds \union {0} : \E sess \in Sessions :
       \E created \in {0 - 1} : LrCall(r, c, t, sess, created)
  \/ \E r \in LinkReqs : LrCreate(r)
  \/ \E r \in LinkReqs : LrSet(r)
  \/ \E sess \in Sessions : \E latestOnly \in BOOLEAN : TreeRegs(sess, latestOnly)
  \/ TreeLinks

RegistrySpec == Init /\ [][RegistryNext]_vars

\* ====================================================== workspace registry
\* workflows/utils.js: POST /register creates a Workspace document under a
\* fresh id, POST /:id/heartbeat rewrites live_at. Each await is a step, so
\* handlers interleave. The clock is taken as monotonic and shared.

\* a millisecond passes
WsTick ==
  /\ wsNow < 1 + MaxWsTicks
  /\ wsNow' = wsNow + 1
  /\ UNCHANGED <<workspaces, wsPc, wsLocal, wsIds, wsCalls>>
  /\ UNCHANGED otherThanWs

\* POST /register arrives; pRef.get() is awaited
WsRegisterCall(r) ==
  /\ wsPc[r] = "idle"
  /\ wsCalls < MaxWsCalls
  /\ wsIds < NumWorkspaces
  /\ wsCalls' = wsCalls + 1
  /\ wsPc' = [wsPc EXCEPT ![r] = "project"]
  /\ UNCHANGED <<wsNow, workspaces, wsLocal, wsIds>>
  /\ UNCHANGED otherThanWs

\* pSnap answers: 400 for an unknown project; otherwise doc() issues a fresh
\* id, now is read and wsRef.set is awaited
WsRegisterProject(r, projectExists) ==
  /\ wsPc[r] = "project"
  /\ IF projectExists /\ wsIds < NumWorkspaces
       THEN /\ wsIds' = wsIds + 1
            /\ wsLocal' = [wsLocal EXCEPT ![r] = [id |-> wsIds', now |-> wsNow]]
            /\ wsPc' = [wsPc EXCEPT ![r] = "create"]
       ELSE /\ wsPc' = [wsPc EXCEPT ![r] = "idle"]
            /\ UNCHANGED <<wsIds, wsLocal>>
  /\ UNCHANGED <<wsNow, workspaces, wsCalls>>
  /\ UNCHANGED otherThanWs

\* wsRef.set(data, { merge: true }) is applied; 201
WsRegisterSet(r) ==
  /\ wsPc[r] = "create"
  /\ workspaces' = [workspaces EXCEPT ![wsLocal[r].id] =
       [exists |-> TRUE, live_at |-> wsLocal[r].now, created |-> wsLocal[r].now,
        updated |-> wsLocal[r].now]]
  /\ wsPc' = [wsPc EXCEPT ![r] = "idle"]
  /\ wsLocal' = [wsLocal EXCEPT ![r] = NoWsLocal]
  /\ UNCHANGED <<wsNow, wsIds, wsCalls>>
  /\ UNCHANGED otherThanWs

\* POST /:id/heartbeat arrives; ref.get() is awaited
WsHeartbeatCall(r, id) ==
  /\ wsPc[r] = "idle"
  /\ wsCalls < MaxWsCalls
  /\ wsCalls' = wsCalls + 1
  /\ wsLocal' = [wsLocal EXCEPT ![r] = [id |-> id, now |-> 0]]
  /\ wsPc' = [wsPc EXCEPT ![r] = "get"]
  /\ UNCHANGED <<wsNow, workspaces, wsIds>>
  /\ UNCHANGED otherThanWs

\* snap answers: 404 when the workspace does not exist; otherwise now is
\* read and ref.set is awaited
WsHeartbeatGet(r) ==
  /\ wsPc[r] = "get"
  /\ IF workspaces[wsLocal[r].id].exists
       THEN /\ wsLocal' = [wsLocal EXCEPT ![r].now = wsNow]
            /\ wsPc' = [wsPc EXCEPT ![r] = "set"]
       ELSE /\ wsLocal' = [wsLocal EXCEPT ![r] = NoWsLocal]
            /\ wsPc' = [wsPc EXCEPT ![r] = "idle"]
  /\ UNCHANGED <<wsNow, workspaces, wsIds, wsCalls>>
  /\ UNCHANGED otherThanWs

\* ref.set({ live_at: now, updated: now }, { merge: true }) is applied; 200
WsHeartbeatSet(r) ==
  /\ wsPc[r] = "set"
  /\ workspaces' = [workspaces EXCEPT ![wsLocal[r].id] =
       [@ EXCEPT !.exists = TRUE, !.live_at = wsLocal[r].now,
                 !.updated = wsLocal[r].now]]
  /\ wsPc' = [wsPc EXCEPT ![r] = "idle"]
  /\ wsLocal' = [wsLocal EXCEPT ![r] = NoWsLocal]
  /\ UNCHANGED <<wsNow, wsIds, wsCalls>>
  /\ UNCHANGED otherThanWs

WorkspaceNext ==
  \/ WsTick
  \/ \E r \in WsReqs : WsRegisterCall(r)
  \/ \E r \in WsReqs : \E projectExists \in BOOLEAN : WsRegisterProject(r, projectExists)
  \/ \E r \in WsReqs : WsRegisterSet(r)
  \/ \E r \in WsReqs : \E id \in WorkspaceIds : WsHeartbeatCall(r, id)
  \/ \E r \in WsReqs : WsHeartbeatGet(r)
  \/ \E r \in WsReqs : WsHeartbeatSet(r)

WorkspaceSpec == Init /\ [][WorkspaceNext]_vars

\* ==================================================== POST /workflows/exec/status
\* jobs/workflows.exec.js: the handler awaits the query on the ExecRegs of the
\* session and then the status fetches of all items (Promise.all).  ExecRegs
\* are created when a workflow starts (that code is not among the sources;
\* modelled from specification 3: every ExecReg carries its execId), ExecStatus
\* documents are written by POST /workflows/exec/status/update.

DefaultLimit == 5
MaxLimit == 50

LsStatusValues == {"RUNNING"}

\* body.limit ?? query.limit: absent or not a number, or a number
LimitInputs ==
  {NoLimit} \cup {[given |-> TRUE, n |-> k] : k \in {0 - 1, 0, 2, MaxLimit, MaxLimit + 1}}

\* the collections are followed up to the arrival of the request
LsWatching == lsPc = "idle"

\* a second passes
LsTick ==
  /\ LsWatching
  /\ lsNow < 1 + MaxLsTicks
  /\ lsNow' = lsNow + 1
  /\ UNCHANGED <<lsRegs, lsStatuses, lsPc, lsSession, limitRaw, limit, lsItems, lsResults>>
  /\ UNCHANGED otherThanLs

\* a workflow of a session starts: its ExecReg is created
LsRegisterExec(sess) ==
  /\ LsWatching
  /\ \E e \in LsExecIds :
       /\ ~lsRegs[e].exists
       /\ \A d \in LsExecIds : d < e => lsRegs[d].exists
       /\ lsRegs' = [lsRegs EXCEPT ![e] =
            [exists |-> TRUE, sessionId |-> sess, created |-> lsNow]]
  /\ UNCHANGED <<lsNow, lsStatuses, lsPc, lsSession, limitRaw, limit, lsItems, lsResults>>
  /\ UNCHANGED otherThanLs

\* POST /status/update wrote the first ExecStatus document of a registered exec
LsSetStatus(e, status) ==
  /\ LsWatching
  /\ lsRegs[e].exists
  /\ ~lsStatuses[e].exists
  /\ Cardinality({d \in LsExecIds : lsStatuses[d].exists}) < MaxLsStatusDocs
  /\ lsStatuses' = [lsStatuses EXCEPT ![e] =
       [exists |-> TRUE, created |-> lsNow, updated |-> lsNow, status |-> status]]
  /\ UNCHANGED <<lsNow, lsRegs, lsPc, lsSession, limitRaw, limit, lsItems, lsResults>>
  /\ UNCHANGED otherThanLs

\* variant: the defensive cap is missing
limitOf_Uncapped(raw) ==
  IF ~raw.given \/ raw.n <= 0 THEN DefaultLimit ELSE raw.n

\* let limit = Number(limitRaw);
\* if (!Number.isFinite(limit) || limit <= 0) limit = 5; if (limit > 50) limit = 50;
limitOf(raw) ==
  LET n == IF ~raw.given \/ raw.n <= 0 THEN DefaultLimit ELSE raw.n
  IN IF n > MaxLimit THEN MaxLimit ELSE n

\* the request arrives (a session id is given): limit is computed and the
\* query on the ExecRegs is awaited
LsCall(sess, raw) ==
  /\ lsPc = "idle"
  /\ lsSession' = sess
  /\ limitRaw' = raw
  /\ limit' = limitOf(raw)
  /\ lsPc' = "regs"
  /\ UNCHANGED <<lsNow, lsRegs, lsStatuses, lsItems, lsResults>>
  /\ UNCHANGED otherThanLs

\* where('sessionId', '==', sessionId).orderBy('created', 'desc').limit(n):
\* the execIds of regsSnap.docs
regsSnapOf(regs, sess, n) ==
  LET all == regsDesc(regs, {e \in LsExecIds : regs[e].exists /\ regs[e].sessionId = sess})
  IN SubSeq(all, 1, Min(n, Len(all)))

\* regsSnap answers: 404 when it is empty; otherwise items is assembled and the
\* status fetches are awaited
LsRegs ==
  /\ lsPc = "regs"
  /\ LET docs == regsSnapOf(lsRegs, lsSession, limit)
     IN IF docs = <<>>
          THEN /\ lsPc' = "notFound"
               /\ UNCHANGED lsItems
          ELSE /\ lsItems' = [i \in 1..Len(docs) |->
                    [execId |-> docs[i], created |-> lsRegs[docs[i]].created]]
               /\ lsPc' = "fetch"
  /\ UNCHANGED <<lsNow, lsRegs, lsStatuses, lsSession, limitRaw, limit, lsResults>>
  /\ UNCHANGED otherThanLs

\* one element of results: { ...it, status: 'UNKNOWN' } without a document,
\* { ...it, ...data } with one (created of the document replaces created of
\* the item), { ...it, status: 'UNKNOWN', error } when the fetch threw
resultOf(it, snap, threw) ==
  IF threw
    THEN [execId |-> it.execId, created |-> it.created, status |-> "UNKNOWN",
          error |-> TRUE]
  ELSE IF ~snap.exists
    THEN [execId |-> it.execId, created |-> it.created, status |-> "UNKNOWN",
          error |-> FALSE]
  ELSE [execId |-> it.execId, created |-> snap.created, status |-> snap.status,
        error |-> FALSE]

\* Promise.all settles, the fetches of the items in failed having thrown;
\* 200 { sessionId, limit, items: results }
LsFetch(failed) ==
  /\ lsPc = "fetch"
  /\ failed \subseteq {lsItems[i].execId : i \in 1..Len(lsItems)}
  /\ Cardinality(failed) <= MaxFetchFailures
  /\ lsResults' = [i \in 1..Len(lsItems) |->
       resultOf(lsItems[i], lsStatuses[lsItems[i].execId], lsItems[i].execId \in failed)]
  /\ lsPc' = "done"
  /\ UNCHANGED <<lsNow, lsRegs, lsStatuses, lsSession, limitRaw, limit, lsItems>>
  /\ UNCHANGED otherThanLs

LatestNext ==
  \/ LsTick
  \/ \E sess \in LsSessions : LsRegisterExec(sess)
  \/ \E e \in LsExecIds : \E status \in LsStatusValues : LsSetStatus(e, status)
  \/ \E sess \in LsSessions : \E raw \in LimitInputs : LsCall(sess, raw)
  \/ LsRegs
  \/ \E failed \in SUBSET LsExecIds : LsFetch(failed)

LatestSpec == Init /\ [][LatestNext]_vars

\* =================================================================== claims
HeldBy(r) == lockDoc.exists /\ consumerId[r] # 0 /\ lockDoc.consumerId = consumerId[r]

\* the step in which the acquire of /start request r returns
AcquireReturns(r) == pc[r] = "idle" /\ lock'[r].called

\* a step in which /start request r or its exit monitor performs its owner-scoped release
OwnerReleaseStep(r) ==
  \/ pc[r] \in {"bestEffortRelease", "catch"} /\ pc'[r] = "done"
  \/ monitor[r] = "release" /\ monitor'[r] = "done"

\* a step in which /start request r calls setConsumerRuntimeInfo
StartSetRuntimeStep(r) == pc[r] \in {"setRuntime", "setRuntimeCloud"} /\ pc'[r] = "done"

\* C1: acquires racing on an absent or expired lock have one winner: an acquire on
\* an absent lock wins, the winner then holds a lock that is not expired at that
\* instant, an acquire by another consumer at the instant a lock was taken gets a
\* conflict naming the holder and changes nothing, and two different consumers
\* never both hold a non-expired lock.
C1_OneWinner ==
  /\ [][\A r \in StartReqs : AcquireReturns(r) =>
          /\ ~lockDoc.exists => lock'[r].ok
          /\ lock'[r].ok =>
                /\ lockDoc'.exists /\ lockDoc'.consumerId = consumerId'[r]
                /\ now - lockDoc'.acquiredAt < lockDoc'.leaseMs
          /\ (lockDoc.exists /\ lockDoc.acquiredAt = now) =>
                /\ ~lock'[r].ok /\ lock'[r].conflict
                /\ lock'[r].currentConsumerId = lockDoc.consumerId
                /\ lockDoc' = lockDoc]_vars
  /\ [](\A r1, r2 \in StartReqs :
          (r1 # r2 /\ HeldBy(r1) /\ now - lockDoc.acquiredAt < lockDoc.leaseMs) => ~HeldBy(r2))

\* C1 witness: one racer holds the lock and the other was answered with the conflict
C1_Witness ==
  \E r1, r2 \in StartReqs :
    /\ r1 # r2 /\ HeldBy(r1) /\ lockDoc.acquiredAt = now
    /\ lock[r2].called /\ ~lock[r2].ok /\ lock[r2].currentConsumerId = consumerId[r1]

\* C2: at most one executor started through /producer/start is live
C2_AtMostOneLiveExecutor ==
  Cardinality({r \in StartReqs : producer[r] = "running"}) <= 1

\* C3: against a lock of another consumer, an acquire issued once
\* now - acquiredAt >= leaseMs succeeds and makes the caller the holder; an
\* acquire issued before that instant returns a conflict.
C3_LeaseExpiry ==
  [][\A r \in StartReqs :
       (AcquireReturns(r) /\ lockDoc.exists /\ lockDoc.consumerId # consumerId'[r]) =>
         IF now - lockDoc.acquiredAt >= lockDoc.leaseMs
         THEN /\ lock'[r].ok
              /\ lockDoc'.exists /\ lockDoc'.consumerId = consumerId'[r]
              /\ lockDoc'.acquiredAt = now
         ELSE /\ ~lock'[r].ok /\ lock'[r].conflict
              /\ lockDoc' = lockDoc]_vars

\* C3 witness: the last Lock Manager call was an acquire that took over another
\* consumer's lock
C3_Witness ==
  /\ lastOp.op = "acquire" /\ lastOp.holder # 0 /\ lastOp.holder # lastOp.by
  /\ lockDoc.exists /\ lockDoc.consumerId = lastOp.by

\* C4: a /start whose acquire reported a conflict answers 'Lock held by another
\* consumer' with the holder's id and starts nothing (no sidecar, producer, job,
\* runtime write or exit monitor); the step leaves the holder's lock unchanged.
C4_ConflictStartsNothing ==
  /\ [](\A r \in StartReqs : (lock[r].called /\ ~lock[r].ok /\ lock[r].conflict) =>
          /\ pc[r] = "done"
          /\ resp[r] = [kind |-> "LockHeld", holder |-> lock[r].currentConsumerId]
          /\ lock[r].currentConsumerId # 0
          /\ ~lockAcquired[r]
          /\ producer[r] = "none" /\ sidecar[r] = "none" /\ monitor[r] = "none")
  /\ [][\A r \in StartReqs : (AcquireReturns(r) /\ ~lock'[r].ok) =>
          /\ lockDoc' = lockDoc
          /\ lock'[r].currentConsumerId = lockDoc.consumerId
          /\ UNCHANGED containerVars]_vars

\* C4 witness: a request was answered 'Lock held' while the named holder holds the lock
C4_Witness ==
  \E r \in StartReqs :
    /\ resp[r].kind = "LockHeld"
    /\ lockDoc.exists /\ lockDoc.consumerId = resp[r].holder

C7_StopIdempotent ==
  /\ [][\A s \in StopReqs : (spc[s] = "release" /\ spc'[s] = "done") =>
          /\ sresp'[s].kind = "ok"
          /\ ~lockDoc'.exists]_vars
  /\ [][\A s \in StopReqs : (spc[s] = "idle" /\ spc'[s] # "idle" /\ ~lockDoc.exists) =>
          /\ sresp'[s].kind = "NoActiveLock"
          /\ spc'[s] = "done"
          /\ UNCHANGED <<now, lockDoc, startVars, containerVars, lastOp>>]_vars

\* C7 witness: a /stop released a held lock, and the next /stop found none
C7_Witness ==
  \E s \in StopReqs :
    /\ sresp[s].kind = "NoActiveLock"
    /\ lastOp.op = "release" /\ lastOp.force /\ lastOp.holder # 0
    /\ ~lockDoc.exists

\* C8: an unforced release by a consumer that is not the stored consumerId leaves
\* the lock document as it is; the owner's release and a forced release delete
\* it; releasing an absent lock changes nothing; a lock disappears only in a
\* release by its owner or a forced release.
C8_OwnerScopedRelease ==
  /\ [][\A r \in StartReqs : OwnerReleaseStep(r) =>
          IF lockDoc.exists /\ lockDoc.consumerId # consumerId[r]
          THEN lockDoc' = lockDoc
          ELSE ~lockDoc'.exists]_vars
  /\ [][\A s \in StopReqs : (spc[s] = "release" /\ spc'[s] = "done") =>
          ~lockDoc'.exists]_vars
  /\ [][(lockDoc.exists /\ ~lockDoc'.exists) =>
          /\ lastOp'.op = "release"
          /\ lastOp'.force \/ lastOp'.by = lockDoc.consumerId]_vars

\* C8 witness: the last Lock Manager call was an unforced release by a consumer
\* other than the holder, and the holder still holds the lock
C8_Witness ==
  /\ lastOp.op = "release" /\ ~lastOp.force
  /\ lastOp.holder # 0 /\ lastOp.holder # lastOp.by
  /\ lockDoc.exists /\ lockDoc.consumerId = lastOp.holder

\* C9: a /start that persists its runtime info while the stored consumerId is not
\* its own (its lock expired and was taken over, or was released) leaves the lock
\* document, the holder's runtime included, unchanged; so does the setRuntime of a
\* /stop issued for a consumerId that no longer holds the lock.
C9_SetRuntimeOwnerOnly ==
  /\ [][\A r \in StartReqs :
          (StartSetRuntimeStep(r) /\ ~HeldBy(r)) => lockDoc' = lockDoc]_vars
  /\ [][\A s \in StopReqs :
          (spc[s] = "setRuntime" /\ spc'[s] = "release"
             /\ ~(lockDoc.exists /\ lockDoc.consumerId = slock[s].consumerId)) =>
            lockDoc' = lockDoc]_vars

\* C9 witness: the last Lock Manager call was a setRuntime by a consumer other
\* than the holder, whose runtime is still in place
C9_Witness ==
  /\ lastOp.op = "setRuntime"
  /\ lastOp.holder # 0 /\ lastOp.holder # lastOp.by
  /\ lockDoc.exists /\ lockDoc.consumerId = lastOp.holder
  /\ lockDoc.runtime.mode # "none"

\* C10 as stated: the lock of a local-mode /start records LOCAL, any other CLOUD
C10_TypeFollowsMode ==
  \A r \in StartReqs : HeldBy(r) =>
    lockDoc.consumerType = IF body[r].localDocker THEN "LOCAL" ELSE "CLOUD"

\* C10 amended: the lock acquired by /producer/start records consumerType = CLOUD
\* in local mode as in remote mode.
C10_TypeAlwaysCloud ==
  \A r \in StartReqs : HeldBy(r) => lockDoc.consumerType = "CLOUD"

\* C10 witness: a local-mode /start holds the lock, recorded as CLOUD
C10_Witness ==
  \E r \in StartReqs :
    HeldBy(r) /\ body[r].localDocker /\ lockDoc.consumerType = "CLOUD"

\* ------------------------------------------------------ postCallback claims
\* a call of postCallback is over
CbDone == cbPc \in {"returned", "thrown"}

\* 4xx statuses other than 400
Other4xx == {st \in CbStatuses : st >= 400 /\ st < 500 /\ st # 400}

\* C14: one call of postCallback sends at most 3 POSTs, whatever the responses
\* and transport errors are, and after its last POST it can only return or
\* throw (directly, or once the backoff timer it is waiting on has fired).
C14_AtMostThreePosts ==
  /\ Len(cbPosts) <= 3
  /\ Len(cbPosts) = attempt
  /\ cbPc = "loop" => Len(cbPosts) < 3
  /\ Len(cbPosts) = 3 => cbPc \in {"returned", "thrown", "backoff"}
  /\ cbPc = "backoff" => cbErr.thrown

C14_Witness ==
  /\ Len(cbPosts) = 3
  /\ cbPc = "thrown"
  /\ \A i \in 1..3 : cbPosts[i].status \in {NetErr, 500}

\* C15: a 4xx response other than 400 is the last POST of its call.
C15_Other4xxTerminal ==
  \A i \in 1..Len(cbPosts) :
    cbPosts[i].status \in Other4xx => i = Len(cbPosts)

\* C16: a 400 to the bare payload is followed by exactly one more POST, which
\* carries {result: payload}; no POST carries a payload wrapped twice; a 400 to
\* the wrapped payload is the last POST of its call.
C16_BadRequestRetriedOnceWrapped ==
  \A i \in 1..Len(cbPosts) :
    /\ cbPosts[i].depth <= Wrap(payload)
    /\ cbPosts[i].status = 400 /\ cbPosts[i].depth = payload /\ CbDone
         => /\ i < Len(cbPosts)
            /\ cbPosts[i + 1].depth = Wrap(payload)
    /\ cbPosts[i].status = 400 /\ cbPosts[i].depth = Wrap(payload)
         => i = Len(cbPosts)

\* C17: a 404 response is the last POST of its call, no backoff is waited
\* after it, and postCallback has thrown an error with status 404 and noRetry.
C17_NotFoundTerminal ==
  \A i \in 1..Len(cbPosts) :
    cbPosts[i].status = 404
      => /\ i = Len(cbPosts)
         /\ ~cbPosts[i].backoff
         /\ cbPc = "thrown"
         /\ cbErr = HttpError(404, TRUE)

C17_Witness ==
  /\ Len(cbPosts) = 2
  /\ cbPosts[1].status = 500
  /\ cbPosts[1].backoff
  /\ cbPosts[2].status = 404
  /\ cbPc = "thrown"

\* -------------------------------------------------- syncBucketPrefix claims
\* the last completed run returned downloaded = uploaded = conflicts = 0
RunReportedNothing ==
  lastRun.downloaded = 0 /\ lastRun.uploaded = 0 /\ lastRun.conflicts = 0

C19_UploadsCarryPrecondition ==
  lastUpload.sent =>
    /\ lastUpload.ifMatch # NoPrecondition
    /\ lastUpload.listed
         => lastUpload.manifestGen # 0 /\ lastUpload.ifMatch = lastUpload.manifestGen
    /\ ~lastUpload.listed => lastUpload.ifMatch = 0
    /\ lastUpload.accepted /\ lastUpload.existed
         => lastUpload.genBefore = lastUpload.manifestGen

\* an upload that met a generation newer than the recorded one, and was refused
C19_Witness ==
  /\ lastUpload.sent
  /\ canCreate
  /\ lastUpload.listed
  /\ lastUpload.existed
  /\ lastUpload.genBefore # lastUpload.manifestGen
  /\ ~lastUpload.accepted
  /\ remote[lastUpload.name].gen = lastUpload.genBefore

\* C20: after a completed run, the manifest file records, for every object the
\* run downloaded or uploaded, the generation the object had when it was
\* transferred.
C20_ManifestGenIsTransferredGen ==
  lastRun.completed /\ syncPc = "idle" =>
    \A n \in Names :
      xfer[n] # 0 => manifestFile[n].exists /\ manifestFile[n].remoteGen = xfer[n]

\* -------------------------------------------------- Tool Dispatcher claims
\* the handler of event e raised a failure
HandlerFailed(e) == records[e].present /\ records[e].error # ""

\* the filepath is absolute or its canonical resolution lies outside workRoot
Escapes(p) == p.abs \/ ~IsPrefix(workRoot, resolve(workRoot, p.comps))

C13_ToolErrorIsProtocolSuccess ==
  \A e \in Events :
    /\ dispatched[e] > 0 /\ ~records[e].present => cur = e /\ dsPc = "handling"
    /\ HandlerFailed(e) =>
         /\ records[e].result = "null"
         /\ dispatched[e] = 1
         /\ streamMode # "closed"
         /\ \/ cur = e /\ dsPc = "emit" /\ emitted[e] = 0
            \/ /\ lastEventId >= e
               /\ emitted[e] = 1
               /\ records[e].via = (IF streamMode = "pull" THEN "callback" ELSE "line")

C13_Witness ==
  /\ streamMode = "pull"
  /\ NumEvents >= 2
  /\ HandlerFailed(1)
  /\ records[1].via = "callback"
  /\ records[2].present
  /\ ~HandlerFailed(2)
  /\ records[2].via = "callback"
  /\ lastEventId = 2

\* a run with uploads enabled has returned, and nothing but the run touched
\* the bucket or the work root since it was called
QuietRunReturned ==
  syncPc = "idle" /\ lastRun.completed /\ runQuiet /\ enableUpload = "on"

\* C21: when a run is called with a manifest entry that names an older
\* generation than the remote object has, and the local file was modified
\* since the manifest was written, the run downloads the object, uploads
\* nothing, counts one conflict for it, and the local file holds the remote
\* content afterwards.
C21_StaleModifiedCountsConflict ==
  \A n \in Names :
    QuietRunReturned /\ startCase[n] = "stale_modified"
      => /\ did[n].downloaded /\ ~did[n].uploaded /\ did[n].conflict
         /\ lastRun.downloaded >= 1 /\ lastRun.conflicts >= 1
         /\ localFs[n].exists /\ localFs[n].content = remote[n].content

\* C22: a local file that has no manifest entry when a run is called, while
\* an object of the same name exists remotely, is counted as a conflict by
\* that run and is not uploaded.
C22_UntrackedCountsConflict ==
  \A n \in Names :
    QuietRunReturned /\ startCase[n] = "untracked"
      => did[n].conflict /\ lastRun.conflicts >= 1 /\ ~did[n].uploaded

RunsInProgress(w) == Len(runPcs[w])

\* C23: at most one sync run is in progress for a work root at any time; a
\* trigger (initial, periodic or final) that arrives while a run for its work
\* root is in progress starts no second run, and a trigger for a work root
\* with no run in progress starts one whatever the other work roots are doing.
C23_OneRunPerWorkRoot ==
  /\ \A w \in WorkRoots : RunsInProgress(w) <= 1
  /\ lastTrigger.present => (lastTrigger.started <=> ~lastTrigger.busy)

\* a periodic trigger was coalesced while runs for both work roots are in
\* progress at once
C23_Witness ==
  /\ lastTrigger.present /\ lastTrigger.busy /\ ~lastTrigger.started
  /\ lastTrigger.kind = "periodic"
  /\ \A w \in WorkRoots : RunsInProgress(w) = 1

\* the steps gracefulShutdown has started, in order
StepsStarted ==
  LET IsStep(e) == e \in Steps
  IN SelectSeq(sdLog, IsStep)

\* how the await of the stop notification ended ("" before that)
StopEnding == IF Len(sdLog) >= 4 THEN sdLog[4] ELSE ""

\* every step, and the exit, starts right after the await of the step
\* before it has ended, by the step or by its timer
StartsFollowEndings ==
  \A i \in 1..Len(sdLog) :
    IF i % 2 = 1
      THEN /\ sdLog[i] \in Steps \union {"exit"}
           /\ i = 1 => sdLog[i] = "hooks"
      ELSE /\ sdLog[i - 1] \in Steps
           /\ sdLog[i] \in {sdLog[i - 1] \o "_" \o e :
                             e \in {"step", "timer", "ok", "failed", "threw"}}

C25_StepsWithinHalfTimeout ==
  /\ [](\A st \in Steps : 2 * took[st] <= SHUTDOWN_TIMEOUT_MS)
  /\ (shuttingDown ~> sdPc = "exited")

\* C25 as the code has it: no step is awaited for more than
\* max(500, floor(SHUTDOWN_TIMEOUT_MS/2)) ms, and process.exit(code) is reached
\* in every shutdown, with the code of the call.
C25_StepsWithinBudgetAndExit ==
  /\ [](\A st \in Steps : took[st] <= Max(500, SHUTDOWN_TIMEOUT_MS \div 2))
  /\ [](sdPc = "exited" => exitCode = firstCode /\ exitCode \in ExitCodes)
  /\ (shuttingDown ~> sdPc = "exited")

\* the process has exited although the hook hangs, every stop notification
\* failed and every lock release failed
C25_Witness ==
  /\ sdPc = "exited"
  /\ \E h \in Hooks : hookState[h] = "running"
  /\ stopState = "failed" /\ stopAttempts = maxAttemptsStop
  /\ relState = "failed" /\ relAttempts = maxAttemptsRelease
  /\ took["hooks"] = stepBudget

\* C26: whatever statusUpdate calls were made for an execId, two concurrent
\* first writes included, the created field of its ExecStatus document is the
\* value the first write stored.
C26_CreatedIsFirstWrite ==
  \A e \in StatusExecs :
    statusDocs[e].exists => statusDocs[e].created = firstCreated[e]

\* C27: however often a (callingExecId, triggeredExecId) pair is registered,
\* the ExecLink document at its id keeps the fields (callingExec,
\* triggeredExec, sessionId, created) the first registration wrote.
C27_LinkKeepsFirstRegistration ==
  \A k \in LinkIds :
    /\ execLinks[k].exists => execLinks[k] = firstLink[k]
    /\ execLinks[k].exists => linkId(execLinks[k]) = k

\* C28: every stored ExecLink refers to a callingExec and a triggeredExec
\* that both have an ExecReg.
C28_LinkEndsAreKnown ==
  \A k \in LinkIds :
    execLinks[k].exists =>
      execRegs[execLinks[k].callingExec].exists
        /\ execRegs[execLinks[k].triggeredExec].exists

\* the nodes of a tree, and of the trees of an answer
RECURSIVE nodesOf(_)
nodesOf(node) ==
  {node} \union UNION {nodesOf(node.children[i]) : i \in 1..Len(node.children)}

AnswerNodes == UNION {nodesOf(trees[i]) : i \in 1..Len(trees)}

\* the exec ids of the session as the handler read them
SnapExecs ==
  {e \in ExecIds : regsSnap[e].exists /\ regsSnap[e].sessionId = trSession}

\* the links of the session as the handler read them
SnapLinks ==
  {k \in LinkIds : linksSnap[k].exists /\ linksSnap[k].sessionId = trSession}

\* C29: in the answer of tree, a link whose triggeredExec has no ExecReg in
\* the session contributes no child node: every child node is an exec of the
\* session, so with execs 1, 2, 3 and links 1->2, 1->3, 3->4 node 3 has no
\* children.
C29_UnknownExecIsNoChild ==
  trPc = "done" =>
    \A n \in AnswerNodes : \A i \in 1..Len(n.children) :
      n.children[i].execId \in SnapExecs

\* the execs of the session that are the triggeredExec of no link
SnapRoots == {e \in SnapExecs : \A k \in SnapLinks : linksSnap[k].triggeredExec # e}

ForestAnswered == trPc = "done" /\ ~trLatestOnly

\* the children of every node follow the created of their links, ascending
ChildrenByLinkCreated ==
  \A n \in AnswerNodes : \A i, j \in 1..Len(n.children) :
    i < j => linksSnap[<<n.execId, n.children[i].execId>>].created
               <= linksSnap[<<n.execId, n.children[j].execId>>].created

\* the trees follow the created of their roots, descending
TreesByRootCreated ==
  \A i, j \in 1..Len(trees) : i < j => trees[i].created >= trees[j].created

\* one tree per element of R, and no other tree
OneTreePer(R) ==
  /\ Len(trees) = Cardinality(R)
  /\ {trees[i].execId : i \in 1..Len(trees)} = R

\* C30: in forest mode the answer holds exactly one tree per exec of the
\* session that is the triggeredExec of no link, the children of every node
\* ordered by link created ascending and the trees by root created descending.
C30_ForestIsOneTreePerRoot ==
  ForestAnswered =>
    /\ OneTreePer(SnapRoots)
    /\ ChildrenByLinkCreated
    /\ TreesByRootCreated

\* C30 as the code has it: the same, except that when every exec of the
\* session is the triggeredExec of some link the answer is the single tree
\* rooted at the newest exec.
C30_ForestIsOneTreePerRootOrNewest ==
  ForestAnswered =>
    /\ IF SnapRoots # {} THEN OneTreePer(SnapRoots)
       ELSE OneTreePer({Head(execIdsOf(regsSnap, trSession))})
    /\ ChildrenByLinkCreated
    /\ TreesByRootCreated

\* a forest of two trees, the older one with two children whose links were
\* created in the reverse of their document order
C30_Witness ==
  /\ ForestAnswered
  /\ Len(trees) = 2
  /\ trees[1].created > trees[2].created
  /\ Len(trees[2].children) = 2
  /\ trees[2].children[1].execId > trees[2].children[2].execId

\* the number of nodes of a tree, and of a sequence of trees
RECURSIVE sizeOf(_), sizeOfAll(_)
sizeOf(node) == 1 + sizeOfAll(node.children)

sizeOfAll(nodes) ==
  IF nodes = <<>> THEN 0 ELSE sizeOf(Head(nodes)) + sizeOfAll(Tail(nodes))

\* how many nodes of exec e carry children, in a tree and in a sequence of trees
RECURSIVE expansionsOf(_, _), expansionsOfAll(_, _)
expansionsOf(node, e) ==
  (IF node.execId = e /\ node.children # <<>> THEN 1 ELSE 0)
    + expansionsOfAll(node.children, e)

expansionsOfAll(nodes, e) ==
  IF nodes = <<>> THEN 0
  ELSE expansionsOf(Head(nodes), e) + expansionsOfAll(Tail(nodes), e)

\* every exec of the session is the triggeredExec of some link
AllExecsTriggered == SnapRoots = {}

\* C31: tree answers for every set of links, cyclic ones included, with the
\* children of each execId expanded at most once (so the answer has at most
\* one node per tree and one per link); and when every exec of the session is
\* the triggeredExec of some link the answer is the single tree rooted at the
\* newest ExecReg.
C31_TreeExpandsEachExecOnce ==
  trPc = "done" =>
    /\ \A e \in ExecIds : expansionsOfAll(trees, e) <= 1
    /\ sizeOfAll(trees) <= Len(trees) + Cardinality(SnapLinks)
    /\ AllExecsTriggered => OneTreePer({Head(execIdsOf(regsSnap, trSession))})

\* a forest request over the cycle 1 -> 2 -> 1 with no other exec: the tree
\* of the newest exec descends through the other one back to itself and stops
C31_Witness ==
  /\ ForestAnswered
  /\ AllExecsTriggered
  /\ SnapExecs = {1, 2}
  /\ {<<1, 2>>, <<2, 1>>} \subseteq SnapLinks
  /\ Len(trees) = 1
  /\ Len(trees[1].children) = 1
  /\ Len(trees[1].children[1].children) = 1
  /\ trees[1].children[1].children[1].execId = trees[1].execId
  /\ trees[1].children[1].children[1].children = <<>>

\* C39: in forest mode every exec registered for the session (as the handler
\* read the ExecRegs) is the execId of some node of the answer, whatever the
\* links, cycles among execs reachable from no root included.
C39_ForestHoldsEveryExec ==
  ForestAnswered => SnapExecs \subseteq {n.execId : n \in AnswerNodes}

\* how often an entry occurs in the shutdown log
timesLogged(entry) ==
  LET Is(e) == e = entry
  IN Len(SelectSeq(sdLog, Is))

\* C40: however many shutdown triggers fire, and whenever they fire, the
\* hooks, the stop notification and the lock release are each started at most
\* once, process.exit is called at most once, and the process exits with the
\* code of the first trigger.
C40_ShutdownRunsOnce ==
  /\ \A e \in Steps \union {"exit"} : timesLogged(e) <= 1
  /\ shuttingDown <=> signals # <<>>
  /\ sdPc = "exited" => exitCode = Head(signals)

\* a second trigger with another code fired during a shutdown that went
\* through all three steps; the process exited with the code of the first
C40_Witness ==
  /\ sdPc = "exited"
  /\ Len(signals) = 2
  /\ signals[1] # signals[2]
  /\ exitCode = signals[1]
  /\ StepsStarted = <<"hooks", "stop", "release">>

\* C37: postCallback returns normally only if one of its POSTs was answered
\* with a 2xx status; in every other case it throws, a first 400 on the last
\* permitted attempt included.
C37_ReturnsOnlyAfterSuccess ==
  /\ cbPc = "returned" =>
       \E i \in 1..Len(cbPosts) :
         cbPosts[i].status >= 200 /\ cbPosts[i].status < 300
  /\ cbPc = "thrown" => cbErr.thrown

\* a run of syncBucketPrefix is between its call and its return or throw
RunUnderWay == syncPc \in {"list", "download", "upload"}

\* C38: the manifest file changes only in the step that ends a run by
\* writeManifest and return; every other step of a run, the throw of a failed
\* run included, leaves the file exactly as it was, so a run that throws
\* leaves the file as it was before the run.
C38_FailedRunKeepsManifestFile ==
  [][RunUnderWay /\ ~(syncPc' = "idle" /\ lastRun'.completed)
       => manifestFile' = manifestFile]_vars

\* the first run recorded the object in the manifest file, the object was
\* rewritten, and the second run threw: the file still holds the entry of
\* the first run
C38_Witness ==
  /\ syncPc = "idle"
  /\ syncRuns = 2
  /\ lastRun = NoRun
  /\ \E n \in Names :
       /\ manifestFile[n].exists
       /\ remote[n].exists
       /\ manifestFile[n].remoteGen # 0
       /\ manifestFile[n].remoteGen # remote[n].gen

\* C33: the stored live_at of a workspace never decreases, whatever the
\* sequence or interleaving of register and heartbeat requests, two
\* overlapping heartbeats for the same workspace included.
C33_LiveAtNeverDecreases ==
  [][\A w \in WorkspaceIds :
       workspaces[w].exists => workspaces'[w].live_at >= workspaces[w].live_at]_vars

\* C34: a /start whose acquire returned a result that is not ok, with or
\* without conflict info, launches nothing (no sidecar, producer or job),
\* installs no monitor, never counts the lock as acquired, and makes no
\* Lock Manager call of its own afterwards.
C34_NotOkStartsNothing ==
  \A r \in StartReqs :
    (lock[r].called /\ ~lock[r].ok) =>
      /\ ~lockAcquired[r]
      /\ producer[r] = "none" /\ sidecar[r] = "none" /\ monitor[r] = "none"
      /\ pc[r] = "done"

\* the step in which a /start that runs in local mode answers 'started'
LocalStartAnswers(r) ==
  body[r].localDocker /\ resp[r].kind = "none" /\ resp'[r].kind = "started"

\* C35: in a successful local-mode /start the lock is acquired first, then the
\* sidecar is started (when enabled), then the producer, then the runtime
\* descriptor is written, the exit monitor is installed and the response is
\* sent; no container is started by a request that has not acquired the lock,
\* and a runtime write that fails still leaves the monitor installed.
C35_LocalStartOrder ==
  /\ [][\A r \in StartReqs :
          /\ (sidecar[r] = "none" /\ sidecar'[r] = "running") =>
               /\ lock[r].ok /\ lockAcquired[r]
               /\ producer[r] = "none" /\ monitor[r] = "none" /\ resp[r].kind = "none"
          /\ (producer[r] = "none" /\ producer'[r] = "running" /\ body[r].localDocker) =>
               /\ lock[r].ok /\ lockAcquired[r]
               /\ body[r].sidecarEnabled <=> sidecar[r] # "none"
               /\ monitor[r] = "none" /\ resp[r].kind = "none"
               /\ ~(lastOp.by = consumerId[r] /\ lastOp.op = "setRuntime")
          /\ LocalStartAnswers(r) =>
               /\ producer[r] # "none"
               /\ monitor[r] = "none" /\ monitor'[r] = "waiting"
               /\ lastOp'.by = consumerId[r] /\ lastOp'.op = "setRuntime"
               /\ pc'[r] = "done"]_vars
  /\ [](\A r \in StartReqs :
          (body[r].localDocker /\ resp[r].kind = "started") =>
             /\ lock[r].ok /\ producer[r] # "none" /\ monitor[r] # "none"
             /\ body[r].sidecarEnabled <=> sidecar[r] # "none")

\* a local start with a sidecar answered 'started' although its runtime write
\* threw: the lock it holds carries no runtime, both containers run and the
\* monitor waits
C35_Witness ==
  \E r \in StartReqs :
    /\ body[r].localDocker /\ body[r].sidecarEnabled
    /\ resp[r].kind = "started"
    /\ lastOp.op = "setRuntime" /\ lastOp.by = consumerId[r]
    /\ HeldBy(r) /\ lockDoc.runtime = NoRuntime
    /\ producer[r] = "running" /\ sidecar[r] = "running"
    /\ monitor[r] = "waiting"

\* C36: the release of a /stop deletes no lock of a consumer other than the
\* one whose lock the request read at its beginning: a lock acquired by a new
\* consumer in between survives the stop.
C36_StopSparesNewHolder ==
  \A s \in StopReqs :
    (spc[s] = "done" /\ sresp[s].kind = "ok" /\ lastOp.op = "release" /\ lastOp.force) =>
      lastOp.holder \in {0, slock[s].consumerId}

\* the execIds of the ExecRegs of the request's session, newest first
LsNewest ==
  regsDesc(lsRegs, {e \in LsExecIds : lsRegs[e].exists /\ lsRegs[e].sessionId = lsSession})

\* C32: the answer of /status holds at most min(limit, 50) items, 5 when limit
\* is absent or not positive: one item for each of the newest ExecRegs of the
\* session, in created-descending order; an exec without ExecStatus document or
\* whose status fetch failed is among them, with status UNKNOWN.
C32_LatestStatuses ==
  lsPc = "done" =>
    /\ limit = IF ~limitRaw.given \/ limitRaw.n <= 0 THEN 5 ELSE Min(limitRaw.n, 50)
    /\ Len(lsResults) = Min(limit, Len(LsNewest))
    /\ Len(lsResults) <= 50
    /\ \A i \in 1..Len(lsResults) :
         LET e == lsResults[i].execId
         IN /\ e = LsNewest[i]
            /\ lsRegs[e].exists /\ lsRegs[e].sessionId = lsSession
            /\ i > 1 => lsRegs[lsResults[i - 1].execId].created >= lsRegs[e].created
            /\ \A d \in LsExecIds :
                 (/\ lsRegs[d].exists /\ lsRegs[d].sessionId = lsSession
                  /\ \A j \in 1..Len(lsResults) : lsResults[j].execId # d)
                   => lsRegs[d].created <= lsRegs[e].created
            /\ (~lsStatuses[e].exists \/ lsResults[i].error) =>
                 lsResults[i].status = "UNKNOWN"
            /\ (lsStatuses[e].exists /\ ~lsResults[i].error) =>
                 lsResults[i].status = lsStatuses[e].status

\* a request without limit answered with 5 of the 6 execs of its session: one
\* with its recorded status, one without ExecStatus document and one whose
\* fetch failed
C32_Witness ==
  /\ lsPc = "done"
  /\ ~limitRaw.given
  /\ Len(LsNewest) = 6 /\ Len(lsResults) = 5
  /\ \E i \in 1..Len(lsResults) : lsResults[i].error /\ lsResults[i].status = "UNKNOWN"
  /\ \E i \in 1..Len(lsResults) :
       /\ ~lsResults[i].error /\ ~lsStatuses[lsResults[i].execId].exists
       /\ lsResults[i].status = "UNKNOWN"
  /\ \E i \in 1..Len(lsResults) : lsResults[i].status = "RUNNING"
====
